---- MODULE Spec2Model ----
(***************************************************************************)
(* Record segmentation and flattening of Leonguyenbk/app_excel.            *)
(*                                                                         *)
(*   Spec      group_records          (xuatdulieu.py, one text line/step)  *)
(*   SpecDf3   group_records_from_df  (app_excel3.py, multi-column table)  *)
(*   SpecDf3Data  the same on tables that hold a parcels table after a     *)
(*             section II title; LiveDf3 the same scan on short tables,    *)
(*             run to its end                                              *)
(*   SpecDf2   group_records_from_df  (appexcel2.py,  multi-column table)  *)
(*   SpecProp  propagate_addresses    (pure function on a list of people)  *)
(*   SpecHouse group_records          (app.py, app_excel.py: by household) *)
(*   SpecPerson  parse_person         (xuatdulieu.py and app.py, one line) *)
(*   SpecParcel  parse_parcel_line_v2 (xuatdulieu.py) and the area cells   *)
(*               of app_excel3.py                                          *)
(*   SpecDated   parse_parcel_line_v2 (xuatdulieu.py) from the leading     *)
(*               date on                                                   *)
(*   SpecBest    convert_best         (test.py)                            *)
(*   SpecRescue  fix_mixed_to_unicode (test.py) and                        *)
(*               fix_mixed_tcvn3_to_unicode (app_excel3.py)                *)
(*                                                                         *)
(* A text line is represented by what the classifier regexes and the       *)
(* extractors see in it: its kind, the address text it carries and the     *)
(* identity of the person or parcel it describes.  The person/parcel       *)
(* described by the line at position n is named n, so every line of an     *)
(* input names a different entity.  Text fields are numbers (0 is the      *)
(* empty text ''), addresses are strings ("" is the empty address).        *)
(***************************************************************************)
EXTENDS Integers, Sequences, FiniteSets, TLC

VARIABLES
    lines,            \* xuatdulieu: the lines consumed so far by `for raw in lines`
    df,               \* tabular variants: the table (a sequence of rows of cells)
    col_index,        \* appexcel2: the column holding the titles and the persons (0-based)
    r,                \* tabular variants: the row index of the outer loop (0-based)
    pc,               \* "scan" while the loop runs, "done" after the final flush
    section,          \* "None" | "I" | "II"
    in_bia,           \* a section I header has been seen
    current_people,   \* persons of the record in progress
    current_parcels,  \* parcels of the record in progress
    rows,             \* the output rows emitted so far
    starts,           \* history: positions at which a new record was started
    row_rec,          \* history: for each output row, the position that started its record
    before,           \* history: current_people as passed to the last propagate_addresses call of SpecProp
    conv              \* the external Converter: what detectCharset and convert answer

vars == <<lines, df, col_index, r, pc, section, in_bia, current_people,
          current_parcels, rows, starts, row_rec, before, conv>>

\* ---------------------------------------------------------------- bounds
MaxLines == 5
MaxPeople == 4
MaxRows == 4

\* The address texts an address line can carry.
Addresses == {"A", "B"}

\* ------------------------------------------------------------ input lines
\* The raw lines that can stand at position n of the input column.
\*   blank  : only spaces, NBSP or underscores (possibly nothing at all)
\*   I, II  : the section titles
\*   addr   : starts with an address keyword; addr is what follows it,
\*            "" when only punctuation follows
\*   person : a line parse_person accepts, describing person n
\*   parcel : a line that starts with a dd/mm/yyyy-like date, describing parcel n
\*   other  : any other non-blank text
RawLines(n) ==
    {[kind |-> k, addr |-> "", id |-> 0] : k \in {"blank", "I", "II", "other"}}
    \cup {[kind |-> "addr", addr |-> a, id |-> 0] : a \in Addresses \cup {""}}
    \cup {[kind |-> k, addr |-> "", id |-> n] : k \in {"person", "parcel"}}

EmptyText == [kind |-> "empty", addr |-> "", id |-> 0]

normalize_text(s) == IF s.kind = "blank" THEN EmptyText ELSE s

is_section_header_i(s) == normalize_text(s).kind = "I"

is_section_header_ii(s) == normalize_text(s).kind = "II"

is_address_line(s) == normalize_text(s).kind = "addr"

extract_address(s) == normalize_text(s).addr

None == [none |-> TRUE]

parse_person(text) ==
    LET s == normalize_text(text) IN
    IF s = EmptyText \/ is_address_line(s) \/ s.kind # "person" THEN None
    ELSE [full_name |-> s.id, birth_year |-> s.id, id_number |-> s.id,
          issue_date |-> s.id, address |-> ""]

parse_parcel_line_v2(s) ==
    LET t == normalize_text(s) IN
    IF t = EmptyText \/ t.kind # "parcel" THEN None
    ELSE [ngay_thang_vao_so |-> t.id, so_thu_tu_thua_dat |-> t.id,
          so_thu_tu_to_ban_do |-> t.id, dt_rieng_m2 |-> t.id, dt_chung_m2 |-> t.id,
          muc_dich_su_dung |-> t.id, thoi_han_su_dung |-> t.id,
          nguon_goc_su_dung |-> t.id, so_phat_hanh_gcn |-> t.id, so_vao_so |-> t.id]

\* ------------------------------------------------------ address propagation
\* dict.get(key, default)
Get(d, key, default) == IF key \in DOMAIN d THEN d[key] ELSE default

\* str.strip() on an address: addresses are stored trimmed (extract_address
\* strips them, parse_person stores ''), so nothing is left to remove.
Strip(a) == a

\* Mutant: with several addresses the last one is written to everyone.
propagate_addresses_overwrite(people) ==
    LET uniq == {a \in {Strip(people[i].address) : i \in 1..Len(people)} : a # ""} IN
    IF Cardinality(uniq) = 1
    THEN LET addr == CHOOSE a \in uniq : TRUE IN
         [i \in 1..Len(people) |-> [people[i] EXCEPT !.address = addr]]
    ELSE IF Cardinality(uniq) > 1
    THEN LET addr == people[Len(people)].address IN
         [i \in 1..Len(people) |-> [people[i] EXCEPT !.address = addr]]
    ELSE people

propagate_addresses(people) ==
    LET addrs == [i \in 1..Len(people) |-> Strip(Get(people[i], "address", ""))]
        uniq  == {a \in {addrs[i] : i \in 1..Len(people)} : a # ""}
    IN  IF Cardinality(uniq) = 1
        THEN LET addr == CHOOSE a \in uniq : TRUE IN
             [i \in 1..Len(people) |->
                 IF Get(people[i], "address", "") = ""
                 THEN [people[i] EXCEPT !.address = addr]
                 ELSE people[i]]
        ELSE people

\* ------------------------------------------------------------- flattening
EmptyDict == <<>>

\* The dict appended to rows (the twenty output columns, in order).
OutputRow(thua, p1, p2) ==
    [ngay_vao_so  |-> Get(thua, "ngay_thang_vao_so", 0),
     so_thua      |-> Get(thua, "so_thu_tu_thua_dat", 0),
     so_to        |-> Get(thua, "so_thu_tu_to_ban_do", 0),
     dt_rieng     |-> Get(thua, "dt_rieng_m2", 0),
     dt_chung     |-> Get(thua, "dt_chung_m2", 0),
     muc_dich     |-> Get(thua, "muc_dich_su_dung", 0),
     thoi_han     |-> Get(thua, "thoi_han_su_dung", 0),
     nguon_goc    |-> Get(thua, "nguon_goc_su_dung", 0),
     so_phat_hanh |-> Get(thua, "so_phat_hanh_gcn", 0),
     so_vao_so    |-> Get(thua, "so_vao_so", 0),
     ten_chu_1    |-> Get(p1, "full_name", 0),
     nam_sinh_1   |-> Get(p1, "birth_year", 0),
     so_giay_to_1 |-> Get(p1, "id_number", 0),
     ngay_cap_1   |-> Get(p1, "issue_date", 0),
     dia_chi_1    |-> Get(p1, "address", ""),
     ten_chu_2    |-> Get(p2, "full_name", 0),
     nam_sinh_2   |-> Get(p2, "birth_year", 0),
     so_giay_to_2 |-> Get(p2, "id_number", 0),
     ngay_cap_2   |-> Get(p2, "issue_date", 0),
     dia_chi_2    |-> Get(p2, "address", "")]

\* Mutant: a record without parcels gives no row.
FlattenRows_no_default_row(people, parcels) ==
    LET p1 == IF Len(people) >= 1 THEN people[1] ELSE EmptyDict
        p2 == IF Len(people) >= 2 THEN people[2] ELSE EmptyDict
    IN  [i \in 1..Len(parcels) |-> OutputRow(parcels[i], p1, p2)]

\* Mutant: owner 2 is the last person of the record instead of the second.
FlattenRows_last_as_owner2(people, parcels) ==
    LET p1   == IF Len(people) >= 1 THEN people[1] ELSE EmptyDict
        p2   == IF Len(people) >= 2 THEN people[Len(people)] ELSE EmptyDict
        thua == IF parcels # <<>> THEN parcels ELSE <<EmptyDict>>
    IN  [i \in 1..Len(thua) |-> OutputRow(thua[i], p1, p2)]

\* The loop body of flush_bia: one row per parcel, or one row for [dict()].
FlattenRows(people, parcels) ==
    LET p1   == IF Len(people) >= 1 THEN people[1] ELSE EmptyDict
        p2   == IF Len(people) >= 2 THEN people[2] ELSE EmptyDict
        thua == IF parcels # <<>> THEN parcels ELSE <<EmptyDict>>
    IN  [i \in 1..Len(thua) |-> OutputRow(thua[i], p1, p2)]

\* Mutant: the flush emits the rows but keeps the people of the record.
flush_bia_keep_people(inbia, rws, people, parcels) ==
    IF ~inbia
    THEN [rows |-> rws, current_people |-> people, current_parcels |-> parcels]
    ELSE [rows |-> rws \o FlattenRows(propagate_addresses(people), parcels),
          current_people |-> people, current_parcels |-> <<>>]

\* flush_bia of xuatdulieu.group_records: the rows, people and parcels it leaves.
flush_bia(inbia, rws, people, parcels) ==
    IF ~inbia
    THEN [rows |-> rws, current_people |-> people, current_parcels |-> parcels]
    ELSE [rows |-> rws \o FlattenRows(propagate_addresses(people), parcels),
          current_people |-> <<>>, current_parcels |-> <<>>]

\* History: the record every row appended by a flush belongs to.
Last(s) == IF s = <<>> THEN 0 ELSE s[Len(s)]

Tag(old, new, h) == [i \in 1..(Len(new) - Len(old)) |-> h]

\* --------------------------------------------- xuatdulieu.group_records
Consume(raw) == lines' = Append(lines, raw)

CanRead == pc = "scan" /\ Len(lines) < MaxLines

\* Mutant: a blank line closes the record in progress.
GR_Blank_flush ==
    /\ CanRead
    /\ \E raw \in RawLines(Len(lines) + 1) :
        /\ normalize_text(raw) = EmptyText
        /\ Consume(raw)
    /\ LET f == flush_bia(in_bia, rows, current_people, current_parcels) IN
        /\ rows' = f.rows
        /\ current_people' = f.current_people
        /\ current_parcels' = f.current_parcels
        /\ row_rec' = row_rec \o Tag(rows, f.rows, Last(starts))
    /\ UNCHANGED <<df, col_index, r, pc, section, in_bia, starts, before, conv>>

GR_Blank ==
    /\ CanRead
    /\ \E raw \in RawLines(Len(lines) + 1) :
        /\ normalize_text(raw) = EmptyText
        /\ Consume(raw)
    /\ UNCHANGED <<df, col_index, r, pc, section, in_bia, current_people, current_parcels,
                   rows, starts, row_rec, before, conv>>

GR_SectionI ==
    /\ CanRead
    /\ \E raw \in RawLines(Len(lines) + 1) :
        LET s == normalize_text(raw)
            f == flush_bia(in_bia, rows, current_people, current_parcels)
        IN  /\ s # EmptyText
            /\ is_section_header_i(s)
            /\ Consume(raw)
            /\ rows' = f.rows
            /\ current_people' = f.current_people
            /\ current_parcels' = f.current_parcels
            /\ in_bia' = TRUE
            /\ section' = "I"
            /\ row_rec' = row_rec \o Tag(rows, f.rows, Last(starts))
            /\ starts' = Append(starts, Len(lines) + 1)
    /\ UNCHANGED <<df, col_index, r, pc, before, conv>>

GR_NotInBia ==
    /\ CanRead
    /\ \E raw \in RawLines(Len(lines) + 1) :
        LET s == normalize_text(raw) IN
            /\ s # EmptyText
            /\ ~is_section_header_i(s)
            /\ ~in_bia
            /\ Consume(raw)
    /\ UNCHANGED <<df, col_index, r, pc, section, in_bia, current_people, current_parcels,
                   rows, starts, row_rec, before, conv>>

\* Mutant: a section II title starts the parcels of the record anew.
GR_SectionII_restart ==
    /\ CanRead
    /\ \E raw \in RawLines(Len(lines) + 1) :
        LET s == normalize_text(raw) IN
            /\ s # EmptyText
            /\ ~is_section_header_i(s)
            /\ in_bia
            /\ is_section_header_ii(s)
            /\ Consume(raw)
            /\ section' = "II"
            /\ current_parcels' = <<>>
    /\ UNCHANGED <<df, col_index, r, pc, in_bia, current_people,
                   rows, starts, row_rec, before, conv>>

GR_SectionII ==
    /\ CanRead
    /\ \E raw \in RawLines(Len(lines) + 1) :
        LET s == normalize_text(raw) IN
            /\ s # EmptyText
            /\ ~is_section_header_i(s)
            /\ in_bia
            /\ is_section_header_ii(s)
            /\ Consume(raw)
            /\ section' = "II"
    /\ UNCHANGED <<df, col_index, r, pc, in_bia, current_people, current_parcels,
                   rows, starts, row_rec, before, conv>>

\* Mutant: the address line is written over the address the last person has.
AddressLine_overwrite(people, s) ==
    LET addr == extract_address(s) IN
    IF people # <<>> /\ addr # ""
    THEN propagate_addresses([people EXCEPT ![Len(people)].address = addr])
    ELSE people

\* The people list after an address line seen in section I.
AddressLine(people, s) ==
    LET addr == extract_address(s) IN
    IF people # <<>> /\ addr # "" /\ Get(people[Len(people)], "address", "") = ""
    THEN propagate_addresses([people EXCEPT ![Len(people)].address = addr])
    ELSE people

GR_Address ==
    /\ CanRead
    /\ \E raw \in RawLines(Len(lines) + 1) :
        LET s == normalize_text(raw) IN
            /\ s # EmptyText
            /\ ~is_section_header_i(s)
            /\ in_bia
            /\ ~is_section_header_ii(s)
            /\ section = "I"
            /\ is_address_line(s)
            /\ Consume(raw)
            /\ current_people' = AddressLine(current_people, s)
    /\ UNCHANGED <<df, col_index, r, pc, section, in_bia, current_parcels,
                   rows, starts, row_rec, before, conv>>

GR_Person ==
    /\ CanRead
    /\ \E raw \in RawLines(Len(lines) + 1) :
        LET s == normalize_text(raw)
            p == parse_person(s)
        IN  /\ s # EmptyText
            /\ ~is_section_header_i(s)
            /\ in_bia
            /\ ~is_section_header_ii(s)
            /\ section = "I"
            /\ ~is_address_line(s)
            /\ Consume(raw)
            /\ current_people' = IF p # None THEN Append(current_people, p)
                                 ELSE current_people
    /\ UNCHANGED <<df, col_index, r, pc, section, in_bia, current_parcels,
                   rows, starts, row_rec, before, conv>>

\* Mutant: a line the parcel extractor rejects ends the parcels section.
GR_Parcel_reject_leaves_section ==
    /\ CanRead
    /\ \E raw \in RawLines(Len(lines) + 1) :
        LET s == normalize_text(raw)
            thua == parse_parcel_line_v2(s)
        IN  /\ s # EmptyText
            /\ ~is_section_header_i(s)
            /\ in_bia
            /\ ~is_section_header_ii(s)
            /\ section # "I"
            /\ section = "II"
            /\ Consume(raw)
            /\ current_parcels' = IF thua # None THEN Append(current_parcels, thua)
                                  ELSE current_parcels
            /\ section' = IF thua # None THEN section ELSE "None"
    /\ UNCHANGED <<df, col_index, r, pc, in_bia, current_people,
                   rows, starts, row_rec, before, conv>>

GR_Parcel ==
    /\ CanRead
    /\ \E raw \in RawLines(Len(lines) + 1) :
        LET s == normalize_text(raw)
            thua == parse_parcel_line_v2(s)
        IN  /\ s # EmptyText
            /\ ~is_section_header_i(s)
            /\ in_bia
            /\ ~is_section_header_ii(s)
            /\ section # "I"
            /\ section = "II"
            /\ Consume(raw)
            /\ current_parcels' = IF thua # None THEN Append(current_parcels, thua)
                                  ELSE current_parcels
    /\ UNCHANGED <<df, col_index, r, pc, section, in_bia, current_people,
                   rows, starts, row_rec, before, conv>>

\* Mutant: rows are returned without the final flush.
GR_End_no_flush ==
    /\ pc = "scan"
    /\ pc' = "done"
    /\ UNCHANGED <<lines, df, col_index, r, section, in_bia, current_people,
                   current_parcels, rows, starts, row_rec, before, conv>>

\* End of the input: the final flush_bia() and return rows.
GR_End ==
    /\ pc = "scan"
    /\ LET f == flush_bia(in_bia, rows, current_people, current_parcels) IN
        /\ rows' = f.rows
        /\ current_people' = f.current_people
        /\ current_parcels' = f.current_parcels
        /\ row_rec' = row_rec \o Tag(rows, f.rows, Last(starts))
    /\ pc' = "done"
    /\ UNCHANGED <<lines, df, col_index, r, section, in_bia, starts, before, conv>>

Init ==
    /\ lines = <<>>
    /\ df = <<>>
    /\ col_index = 0
    /\ r = 0
    /\ pc = "scan"
    /\ section = "None"
    /\ in_bia = FALSE
    /\ current_people = <<>>
    /\ current_parcels = <<>>
    /\ rows = <<>>
    /\ starts = <<>>
    /\ row_rec = <<>>
    /\ before = <<>>
    /\ conv = <<>>

Next ==
    \/ GR_Blank
    \/ GR_SectionI
    \/ GR_NotInBia
    \/ GR_SectionII
    \/ GR_Address
    \/ GR_Person
    \/ GR_Parcel
    \/ GR_End

Spec == Init /\ [][Next]_vars

\* ------------------------------------------------ propagate_addresses alone
\* The lists of people propagate_addresses can be handed: person i of the
\* list, with no address or one of the address texts.
PeopleLists ==
    UNION {[1..n -> {[full_name |-> i, birth_year |-> i, id_number |-> i,
                      issue_date |-> i, address |-> a] :
                         i \in 1..MaxPeople, a \in Addresses \cup {""}}] :
           n \in 0..MaxPeople}

InitProp ==
    /\ current_people \in {pp \in PeopleLists :
                              \A i \in 1..Len(pp) : pp[i].full_name = i}
    /\ before = current_people
    /\ conv = <<>>
    /\ pc = "call"
    /\ lines = <<>>
    /\ df = <<>>
    /\ col_index = 0
    /\ r = 0
    /\ section = "None"
    /\ in_bia = FALSE
    /\ current_parcels = <<>>
    /\ rows = <<>>
    /\ starts = <<>>
    /\ row_rec = <<>>

PA_Call ==
    /\ pc = "call"
    /\ current_people' = propagate_addresses(current_people)
    /\ pc' = "ret"
    /\ UNCHANGED <<lines, df, col_index, r, section, in_bia, current_parcels, rows,
                   starts, row_rec, before, conv>>

NextProp == PA_Call

SpecProp == InitProp /\ [][NextProp]_vars

\* ------------------------------------------------------- multi-column tables
\* A cell holds its text after to_text / normalize_text:
\*   ""  empty          "I", "II"  the section titles
\*   "Hd" the column title "Ngay thang vao so"    (keywords ngay, vao so)
\*   "Ht" the column title "So thu tu thua dat"   (keywords so thu tu, thua dat)
\*   "D"  a dd/mm/yyyy date      "P"  the text of a person
\*   "S"  a date serial, "45000" "N"  a small number, "12"
\*   "Sup" a superscript digit, for which str.isdigit() is true
\*   "A"  an address line        "X"  any other text
TableRows ==
    {<<"I", "">>, <<"II", "">>, <<"Hd", "Ht">>, <<"D", "X">>, <<"P", "">>,
     <<"A", "">>, <<"", "">>, <<"", "I">>, <<"X", "I">>}

Tables == UNION {[1..n -> TableRows] : n \in 0..MaxRows}

ColIndexes == {0, 1}

\* The text of a cell, as the line classifiers and extractors see it; the
\* person or parcel it describes is named by the row position n.
TextOf(c, n) ==
    CASE c = ""   -> [kind |-> "blank", addr |-> "", id |-> 0]
      [] c = "I"  -> [kind |-> "I", addr |-> "", id |-> 0]
      [] c = "II" -> [kind |-> "II", addr |-> "", id |-> 0]
      [] c = "A"  -> [kind |-> "addr", addr |-> "A", id |-> 0]
      [] c = "P"  -> [kind |-> "person", addr |-> "", id |-> n]
      [] c = "D"  -> [kind |-> "parcel", addr |-> "", id |-> n]
      [] OTHER    -> [kind |-> "other", addr |-> "", id |-> 0]

\* " ".join(cells), normalized: the text starts with the first non-empty cell.
JoinRow(row, n) ==
    LET ne == SelectSeq(row, LAMBDA c : c # "") IN
    IF ne = <<>> THEN TextOf("", n) ELSE TextOf(ne[1], n)

\* The keywords of the folded, lower-cased text of a cell.
Keywords(c) ==
    CASE c = "Hd" -> {"ngay", "vao so"}
      [] c = "Ht" -> {"so thu tu", "thua dat"}
      [] c = "II" -> {"thua dat"}
      [] OTHER    -> {}

n_rows(t) == Len(t)

n_cols(t) == IF t = <<>> THEN 0 ELSE Len(t[1])

\* cell(rr, cc): 0-based, "" outside the table.
cell(t, rr, cc) ==
    IF rr < 0 \/ rr >= n_rows(t) \/ cc < 0 \/ cc >= n_cols(t) THEN ""
    ELSE t[rr + 1][cc + 1]

row_has_section_I(t, rr) ==
    IF rr < 0 \/ rr >= Len(t) THEN FALSE
    ELSE is_section_header_i(JoinRow(t[rr + 1], rr + 1))

row_has_section_II(t, rr) ==
    IF rr < 0 \/ rr >= Len(t) THEN FALSE
    ELSE is_section_header_ii(JoinRow(t[rr + 1], rr + 1))

\* is_date_like: a dd/mm/yyyy or yyyy/mm/dd text, or a text of digits
\* whose number is between 20000 and 60000.
is_date_like(c) == c \in {"D", "S"}

\* s.isdigit() holds and int(s) raises ValueError: a text of digits that
\* are not decimal digits, such as a superscript two.
is_date_like_raises(c) == c = "Sup"

\* The column-title test of the lookahead, on the cells joined with " | ".
IsHeaderLine(t, rr) ==
    LET kw == UNION {Keywords(cell(t, rr, c)) : c \in 0..(n_cols(t) - 1)}
    IN  ("ngay" \in kw /\ "vao so" \in kw) /\ ("so thu tu" \in kw)

\* for k in range(1, 5): the rows looked at after a section II title.
Lookahead == 4

\* Mutant: one more row is looked at.
header_r_far(t, rr) ==
    LET K == {k \in 1..(Lookahead + 1) : rr + k < n_rows(t) /\ IsHeaderLine(t, rr + k)}
    IN  IF K = {} THEN -1 ELSE rr + (CHOOSE k \in K : \A j \in K : k <= j)

\* header_r, or -1 for None.
header_r(t, rr) ==
    LET K == {k \in 1..Lookahead : rr + k < n_rows(t) /\ IsHeaderLine(t, rr + k)}
    IN  IF K = {} THEN -1 ELSE rr + (CHOOSE k \in K : \A j \in K : k <= j)

\* col_map: the last column whose title has the keywords, -1 when no column has.
ColOf(t, hr, kws) ==
    LET C == {c \in 0..(n_cols(t) - 1) : kws \subseteq Keywords(cell(t, hr, c))}
    IN  IF C = {} THEN -1 ELSE CHOOSE c \in C : \A d \in C : d <= c

\* g(key): the cell of a mapped column, named by the row position; '' otherwise.
FieldOf(t, rr, col) ==
    IF col = -1 \/ cell(t, rr, col) = "" THEN 0 ELSE rr + 1

\* The first row at or after rr whose date cell is not date-like (or n_rows).
RECURSIVE DataEnd3(_, _, _)
DataEnd3(t, rr, datecol) ==
    IF rr < n_rows(t) /\ is_date_like(cell(t, rr, datecol))
    THEN DataEnd3(t, rr + 1, datecol)
    ELSE rr

\* The data-row loop ends with the exception of is_date_like.
DataRaises(t, rr, datecol) ==
    LET stop == DataEnd3(t, rr, datecol) IN
    stop < n_rows(t) /\ is_date_like_raises(cell(t, stop, datecol))

\* The parcel read from data row rr under the title row hr (app_excel3).
Thua3(t, rr, hr) ==
    [ngay |-> rr + 1,
     thua |-> FieldOf(t, rr, ColOf(t, hr, {"so thu tu", "thua dat"})),
     to |-> FieldOf(t, rr, ColOf(t, hr, {"so thu tu", "to ban do"})),
     rieng |-> FieldOf(t, rr, ColOf(t, hr, {"rieng"})),
     chung |-> FieldOf(t, rr, ColOf(t, hr, {"chung"})),
     mucdich |-> FieldOf(t, rr, ColOf(t, hr, {"muc dich"})),
     thoihan |-> FieldOf(t, rr, ColOf(t, hr, {"thoi han"})),
     nguongoc |-> FieldOf(t, rr, ColOf(t, hr, {"nguon goc"})),
     soph |-> FieldOf(t, rr, ColOf(t, hr, {"so phat hanh"})),
     sovs |-> FieldOf(t, rr, ColOf(t, hr, {"so vao so"}))]

\* The same parcel with the keys flush_bia of xuatdulieu/appexcel2 reads.
AsThua2(q) ==
    [ngay_thang_vao_so |-> q.ngay, so_thu_tu_thua_dat |-> q.thua,
     so_thu_tu_to_ban_do |-> q.to, dt_rieng_m2 |-> q.rieng, dt_chung_m2 |-> q.chung,
     muc_dich_su_dung |-> q.mucdich, thoi_han_su_dung |-> q.thoihan,
     nguon_goc_su_dung |-> q.nguongoc, so_phat_hanh_gcn |-> q.soph,
     so_vao_so |-> q.sovs]

\* flush_bia of app_excel3: an empty record is dropped, in_bia is reset.
FlattenRows3(people, parcels) ==
    FlattenRows(people, [i \in 1..Len(parcels) |-> AsThua2(parcels[i])])

flush_bia3(inbia, rws, people, parcels) ==
    IF ~inbia
    THEN [rows |-> rws, current_people |-> people, current_parcels |-> parcels,
          in_bia |-> inbia]
    ELSE IF people = <<>> /\ parcels = <<>>
    THEN [rows |-> rws, current_people |-> people, current_parcels |-> parcels,
          in_bia |-> FALSE]
    ELSE [rows |-> rws \o FlattenRows3(propagate_addresses(people), parcels),
          current_people |-> <<>>, current_parcels |-> <<>>, in_bia |-> FALSE]

\* --------------------------------------- app_excel3.group_records_from_df
InitDf3 ==
    /\ df \in Tables
    /\ col_index = 0
    /\ r = 0
    /\ pc = "scan"
    /\ section = "None"
    /\ in_bia = FALSE
    /\ current_people = <<>>
    /\ current_parcels = <<>>
    /\ rows = <<>>
    /\ lines = <<>>
    /\ starts = <<>>
    /\ row_rec = <<>>
    /\ before = <<>>
    /\ conv = <<>>

InLoop == pc = "scan" /\ r < n_rows(df)

D3_SectionI ==
    /\ InLoop
    /\ row_has_section_I(df, r)
    /\ LET f == flush_bia3(in_bia, rows, current_people, current_parcels) IN
        /\ rows' = f.rows
        /\ current_people' = f.current_people
        /\ current_parcels' = f.current_parcels
        /\ row_rec' = row_rec \o Tag(rows, f.rows, Last(starts))
    /\ in_bia' = TRUE
    /\ section' = "I"
    /\ r' = r + 1
    /\ starts' = Append(starts, r + 1)
    /\ UNCHANGED <<lines, df, col_index, pc, before, conv>>

D3_NotInBia ==
    /\ InLoop
    /\ ~row_has_section_I(df, r)
    /\ ~in_bia
    /\ r' = r + 1
    /\ UNCHANGED <<lines, df, col_index, pc, section, in_bia, current_people,
                   current_parcels, rows, starts, row_rec, before, conv>>

\* A section II title with no column-title row among the next rows.
D3_SectionII_NoHeader ==
    /\ InLoop
    /\ ~row_has_section_I(df, r)
    /\ in_bia
    /\ row_has_section_II(df, r)
    /\ header_r(df, r) = -1
    /\ section' = "II"
    /\ r' = r + 1
    /\ UNCHANGED <<lines, df, col_index, pc, in_bia, current_people,
                   current_parcels, rows, starts, row_rec, before, conv>>

\* The date column of the title row hr: the column titled with the date,
\* the first column when no title names it.
DateCol3(t, hr) ==
    LET ngay == ColOf(t, hr, {"ngay", "vao so"})
    IN  IF ngay = -1 THEN 0 ELSE ngay

\* A section II title with its column-title row: the data rows are read.
\* hr, datecol and rr are the locals of the loop body.
D3_SectionII_Table ==
    /\ InLoop
    /\ ~row_has_section_I(df, r)
    /\ in_bia
    /\ row_has_section_II(df, r)
    /\ \E hr \in {header_r(df, r)} :
       \E datecol \in {DateCol3(df, hr)} :
       \E rr \in {DataEnd3(df, hr + 1, datecol)} :
          /\ hr # -1
          /\ ~DataRaises(df, hr + 1, datecol)
          /\ current_parcels' = current_parcels \o
                 [i \in 1..(rr - (hr + 1)) |-> Thua3(df, hr + i, hr)]
          /\ r' = rr
    /\ section' = "II"
    /\ UNCHANGED <<lines, df, col_index, pc, in_bia, current_people,
                   rows, starts, row_rec, before, conv>>

\* The same, when is_date_like raises on the cell that ends the data
\* rows: the exception leaves group_records_from_df, nothing is returned.
D3_SectionII_Raise ==
    /\ InLoop
    /\ ~row_has_section_I(df, r)
    /\ in_bia
    /\ row_has_section_II(df, r)
    /\ \E hr \in {header_r(df, r)} :
       \E datecol \in {DateCol3(df, hr)} :
       \E rr \in {DataEnd3(df, hr + 1, datecol)} :
          /\ hr # -1
          /\ DataRaises(df, hr + 1, datecol)
          /\ current_parcels' = current_parcels \o
                 [i \in 1..(rr - (hr + 1)) |-> Thua3(df, hr + i, hr)]
    /\ section' = "II"
    /\ pc' = "raised"
    /\ UNCHANGED <<lines, df, col_index, r, in_bia, current_people,
                   rows, starts, row_rec, before, conv>>

\* A row of section I: an address line or a person.
D3_PersonsRow ==
    /\ InLoop
    /\ ~row_has_section_I(df, r)
    /\ in_bia
    /\ ~row_has_section_II(df, r)
    /\ section = "I"
    /\ LET row_text == JoinRow(df[r + 1], r + 1)
           p == parse_person(row_text)
       IN  current_people' =
               IF is_address_line(row_text)
               THEN AddressLine(current_people, row_text)
               ELSE IF p # None THEN Append(current_people, p)
               ELSE current_people
    /\ r' = r + 1
    /\ UNCHANGED <<lines, df, col_index, pc, section, in_bia, current_parcels,
                   rows, starts, row_rec, before, conv>>

D3_Skip ==
    /\ InLoop
    /\ ~row_has_section_I(df, r)
    /\ in_bia
    /\ ~row_has_section_II(df, r)
    /\ section # "I"
    /\ r' = r + 1
    /\ UNCHANGED <<lines, df, col_index, pc, section, in_bia, current_people,
                   current_parcels, rows, starts, row_rec, before, conv>>

D3_End ==
    /\ pc = "scan"
    /\ ~(r < n_rows(df))
    /\ LET f == flush_bia3(in_bia, rows, current_people, current_parcels) IN
        /\ rows' = f.rows
        /\ current_people' = f.current_people
        /\ current_parcels' = f.current_parcels
        /\ in_bia' = f.in_bia
        /\ row_rec' = row_rec \o Tag(rows, f.rows, Last(starts))
    /\ pc' = "done"
    /\ UNCHANGED <<lines, df, col_index, r, section, starts, before, conv>>

NextDf3 ==
    \/ D3_SectionI
    \/ D3_NotInBia
    \/ D3_SectionII_NoHeader
    \/ D3_SectionII_Table
    \/ D3_PersonsRow
    \/ D3_Skip
    \/ D3_End

SpecDf3 == InitDf3 /\ [][NextDf3]_vars

\* ---- app_excel3.group_records_from_df on tables with a parcels table.
\* The rows that can follow a section II title.
DataRows ==
    {<<"Hd", "Ht">>, <<"D", "X">>, <<"N", "X">>, <<"Sup", "X">>, <<"I", "">>}

\* How the tables start: a record with a person, or a person row that
\* comes before the first section I title.
DataPrefixes ==
    {<<<<"I", "">>, <<"P", "">>, <<"II", "">>>>,
     <<<<"P", "">>, <<"I", "">>, <<"II", "">>>>}

\* Long enough for a column-title row beyond the lookahead.
MaxTail == MaxRows + 1

DataTables ==
    {p \o t : p \in DataPrefixes, t \in UNION {[1..n -> DataRows] : n \in 0..MaxTail}}

InitDf3Data ==
    /\ df \in DataTables
    /\ col_index = 0
    /\ r = 0
    /\ pc = "scan"
    /\ section = "None"
    /\ in_bia = FALSE
    /\ current_people = <<>>
    /\ current_parcels = <<>>
    /\ rows = <<>>
    /\ lines = <<>>
    /\ starts = <<>>
    /\ row_rec = <<>>
    /\ before = <<>>
    /\ conv = <<>>

NextDf3Data ==
    \/ D3_SectionI
    \/ D3_NotInBia
    \/ D3_SectionII_NoHeader
    \/ D3_SectionII_Table
    \/ D3_SectionII_Raise
    \/ D3_PersonsRow
    \/ D3_Skip
    \/ D3_End

SpecDf3Data == InitDf3Data /\ [][NextDf3Data]_vars

\* ---- the same scan on short parcels tables, run to its end.
\* A section I title, a section II title and the column titles, then at
\* most MaxRows - 1 rows.
ShortTables ==
    {<<<<"I", "">>, <<"II", "">>, <<"Hd", "Ht">>>> \o t :
        t \in UNION {[1..n -> {<<"D", "X">>, <<"S", "X">>, <<"Sup", "X">>, <<"P", "">>,
                                <<"I", "">>}] : n \in 0..(MaxRows - 1)}}
    \cup {<<<<"X", "">>, <<"I", "">>, <<"II", "">>>>}

InitDf3Short ==
    /\ df \in ShortTables
    /\ col_index = 0
    /\ r = 0
    /\ pc = "scan"
    /\ section = "None"
    /\ in_bia = FALSE
    /\ current_people = <<>>
    /\ current_parcels = <<>>
    /\ rows = <<>>
    /\ lines = <<>>
    /\ starts = <<>>
    /\ row_rec = <<>>
    /\ before = <<>>
    /\ conv = <<>>

\* The loop runs on: every iteration that is possible is taken.
LiveDf3 == InitDf3Short /\ [][NextDf3Data]_vars /\ WF_vars(NextDf3Data)

\* ---------------------------------------- appexcel2.group_records_from_df
\* flush_bia of appexcel2: nothing to do for an empty record.
flush_bia2(rws, people, parcels) ==
    IF people = <<>> /\ parcels = <<>>
    THEN [rows |-> rws, current_people |-> people, current_parcels |-> parcels]
    ELSE [rows |-> rws \o FlattenRows(propagate_addresses(people), parcels),
          current_people |-> <<>>, current_parcels |-> <<>>]

\* s = cell(r, col_index), as a text line.
Cell2(t, rr, cc) == TextOf(cell(t, rr, cc), rr + 1)

\* The inner loop collecting the persons of section I: the row it stops at
\* and the people it leaves, from row rr with the people pp.
RECURSIVE PersonsLoop2(_, _, _, _)
PersonsLoop2(t, rr, cc, pp) ==
    IF ~(rr < n_rows(t)) THEN [r |-> rr, people |-> pp]
    ELSE LET tx == Cell2(t, rr, cc)
             p  == parse_person(tx)
         IN  IF is_section_header_ii(tx) \/ is_section_header_i(tx)
             THEN [r |-> rr, people |-> pp]
             ELSE PersonsLoop2(t, rr + 1, cc,
                      IF is_address_line(tx) THEN AddressLine(pp, tx)
                      ELSE IF p # None THEN Append(pp, p)
                      ELSE pp)

\* re.match(r'\d{1,2}[\/\-.]\d{1,2}[\/\-.]\d{2,4}$', v_ngay)
MatchesDate2(c) == c = "D"

RECURSIVE DataEnd2(_, _, _)
DataEnd2(t, rr, datecol) ==
    IF rr < n_rows(t) /\ MatchesDate2(cell(t, rr, datecol))
    THEN DataEnd2(t, rr + 1, datecol)
    ELSE rr

\* The parcel read from data row rr under the title row hr (appexcel2).
Thua2(t, rr, hr) ==
    [ngay_thang_vao_so |-> FieldOf(t, rr, ColOf(t, hr, {"ngay", "vao so"})),
     so_thu_tu_thua_dat |-> FieldOf(t, rr, ColOf(t, hr, {"so thu tu", "thua dat"})),
     so_thu_tu_to_ban_do |-> FieldOf(t, rr, ColOf(t, hr, {"so thu tu", "to ban do"})),
     dt_rieng_m2 |-> FieldOf(t, rr, ColOf(t, hr, {"rieng"})),
     dt_chung_m2 |-> FieldOf(t, rr, ColOf(t, hr, {"chung"})),
     muc_dich_su_dung |-> FieldOf(t, rr, ColOf(t, hr, {"muc dich"})),
     thoi_han_su_dung |-> FieldOf(t, rr, ColOf(t, hr, {"thoi han"})),
     nguon_goc_su_dung |-> FieldOf(t, rr, ColOf(t, hr, {"nguon goc"})),
     so_phat_hanh_gcn |-> FieldOf(t, rr, ColOf(t, hr, {"so phat hanh"})),
     so_vao_so |-> FieldOf(t, rr, ColOf(t, hr, {"so vao so"}))]

InitDf2 ==
    /\ df \in Tables
    /\ col_index \in ColIndexes
    /\ r = 0
    /\ pc = "scan"
    /\ section = "None"
    /\ in_bia = FALSE
    /\ current_people = <<>>
    /\ current_parcels = <<>>
    /\ rows = <<>>
    /\ lines = <<>>
    /\ starts = <<>>
    /\ row_rec = <<>>
    /\ before = <<>>
    /\ conv = <<>>

D2_Blank ==
    /\ InLoop
    /\ normalize_text(Cell2(df, r, col_index)) = EmptyText
    /\ r' = r + 1
    /\ UNCHANGED <<lines, df, col_index, pc, section, in_bia, current_people,
                   current_parcels, rows, starts, row_rec, before, conv>>

\* A section I title: flush, then the persons up to the next title.
D2_SectionI ==
    /\ InLoop
    /\ normalize_text(Cell2(df, r, col_index)) # EmptyText
    /\ is_section_header_i(Cell2(df, r, col_index))
    /\ LET f == flush_bia2(rows, current_people, current_parcels)
           l == PersonsLoop2(df, r + 1, col_index, f.current_people)
       IN  /\ rows' = f.rows
           /\ current_parcels' = f.current_parcels
           /\ row_rec' = row_rec \o Tag(rows, f.rows, Last(starts))
           /\ current_people' = l.people
           /\ r' = l.r
    /\ starts' = Append(starts, r + 1)
    /\ UNCHANGED <<lines, df, col_index, pc, section, in_bia, before, conv>>

\* A section II title: the next row is taken as the column titles, the rows
\* after it are read as parcels while their date cell holds a date.
D2_SectionII ==
    /\ InLoop
    /\ normalize_text(Cell2(df, r, col_index)) # EmptyText
    /\ ~is_section_header_i(Cell2(df, r, col_index))
    /\ is_section_header_ii(Cell2(df, r, col_index))
    /\ LET header_row == r + 1
           ngay    == ColOf(df, header_row, {"ngay", "vao so"})
           datecol == IF ngay = -1 THEN col_index ELSE ngay
           rr      == DataEnd2(df, header_row + 1, datecol)
       IN  /\ current_parcels' = current_parcels \o
                  [i \in 1..(rr - (header_row + 1)) |-> Thua2(df, header_row + i, header_row)]
           /\ r' = rr
    /\ UNCHANGED <<lines, df, col_index, pc, section, in_bia, current_people,
                   rows, starts, row_rec, before, conv>>

D2_Skip ==
    /\ InLoop
    /\ normalize_text(Cell2(df, r, col_index)) # EmptyText
    /\ ~is_section_header_i(Cell2(df, r, col_index))
    /\ ~is_section_header_ii(Cell2(df, r, col_index))
    /\ r' = r + 1
    /\ UNCHANGED <<lines, df, col_index, pc, section, in_bia, current_people,
                   current_parcels, rows, starts, row_rec, before, conv>>

D2_End ==
    /\ pc = "scan"
    /\ ~(r < n_rows(df))
    /\ LET f == flush_bia2(rows, current_people, current_parcels) IN
        /\ rows' = f.rows
        /\ current_people' = f.current_people
        /\ current_parcels' = f.current_parcels
        /\ row_rec' = row_rec \o Tag(rows, f.rows, Last(starts))
    /\ pc' = "done"
    /\ UNCHANGED <<lines, df, col_index, r, section, in_bia, starts, before, conv>>

NextDf2 ==
    \/ D2_Blank
    \/ D2_SectionI
    \/ D2_SectionII
    \/ D2_Skip
    \/ D2_End

SpecDf2 == InitDf2 /\ [][NextDf2]_vars

\* ===================================================================
\* group_records of app.py and app_excel.py: records by household.
\*
\* A line is what the classifiers and parse_person see in it:
\*   blank   : empty after strip()
\*   hh      : starts with the household word; id is the person the
\*             line gives, 0 when parse_person returns None on it
\*   hon     : starts with a plain honorific and is person-like; id as
\*             for hh
\*   addr    : starts with the address words
\*   person  : any other line parse_person accepts, describing person n
\*   other   : any other line
\* records is kept in rows, a sequence of lists of persons.
\* ===================================================================
HouseLines(n) ==
    {[kind |-> k, addr |-> "", id |-> 0] : k \in {"blank", "hh", "hon", "addr", "other"}}
    \cup {[kind |-> k, addr |-> "", id |-> n] : k \in {"hh", "hon", "person"}}

\* s = (raw or '').strip()
HouseStrip(raw) == IF raw.kind = "blank" THEN EmptyText ELSE raw

is_household_header(s) == s.kind = "hh"

is_plain_honorific_header(s) == s.kind = "hon"

app_is_address_line(s) == s.kind = "addr"

\* parse_person of app.py / app_excel.py on a line: the person or None.
house_parse_person(s) ==
    IF s = EmptyText \/ app_is_address_line(s) \/ s.id = 0 THEN None
    ELSE [full_name |-> s.id, birth_year |-> s.id, id_number |-> s.id,
          issue_date |-> s.id]

\* flush(): a non-empty current_people is appended as a record.
flush(records, people) ==
    IF people # <<>> THEN [records |-> Append(records, people), current_people |-> <<>>]
    ELSE [records |-> records, current_people |-> people]

\* Mutant: a blank line is skipped.
HG_Blank_skip ==
    /\ CanRead
    /\ \E raw \in HouseLines(Len(lines) + 1) :
        /\ HouseStrip(raw) = EmptyText
        /\ Consume(raw)
    /\ UNCHANGED <<df, col_index, r, pc, section, in_bia, current_people, current_parcels,
                   rows, starts, row_rec, before, conv>>

HG_Blank ==
    /\ CanRead
    /\ \E raw \in HouseLines(Len(lines) + 1) :
        /\ HouseStrip(raw) = EmptyText
        /\ Consume(raw)
    /\ LET f == flush(rows, current_people) IN
        /\ rows' = f.records
        /\ current_people' = f.current_people
    /\ UNCHANGED <<df, col_index, r, pc, section, in_bia, current_parcels,
                   starts, row_rec, before, conv>>

\* Mutant: a household header that gives no person leaves the record open.
HG_Household_lazy ==
    /\ CanRead
    /\ \E raw \in HouseLines(Len(lines) + 1) :
        LET s == HouseStrip(raw)
            p == house_parse_person(s)
            f == IF p # None THEN flush(rows, current_people)
                 ELSE [records |-> rows, current_people |-> current_people]
        IN  /\ s # EmptyText
            /\ is_household_header(s)
            /\ Consume(raw)
            /\ rows' = f.records
            /\ current_people' = IF p # None THEN Append(f.current_people, p)
                                 ELSE f.current_people
    /\ UNCHANGED <<df, col_index, r, pc, section, in_bia, current_parcels,
                   starts, row_rec, before, conv>>

\* 1) a household header: flush, then the person of the line if any.
HG_Household ==
    /\ CanRead
    /\ \E raw \in HouseLines(Len(lines) + 1) :
        LET s == HouseStrip(raw)
            p == house_parse_person(s)
            f == flush(rows, current_people)
        IN  /\ s # EmptyText
            /\ is_household_header(s)
            /\ Consume(raw)
            /\ rows' = f.records
            /\ current_people' = IF p # None THEN Append(f.current_people, p)
                                 ELSE f.current_people
    /\ UNCHANGED <<df, col_index, r, pc, section, in_bia, current_parcels,
                   starts, row_rec, before, conv>>

\* 2) a plain honorific header: the same.
HG_Honorific ==
    /\ CanRead
    /\ \E raw \in HouseLines(Len(lines) + 1) :
        LET s == HouseStrip(raw)
            p == house_parse_person(s)
            f == flush(rows, current_people)
        IN  /\ s # EmptyText
            /\ ~is_household_header(s)
            /\ is_plain_honorific_header(s)
            /\ Consume(raw)
            /\ rows' = f.records
            /\ current_people' = IF p # None THEN Append(f.current_people, p)
                                 ELSE f.current_people
    /\ UNCHANGED <<df, col_index, r, pc, section, in_bia, current_parcels,
                   starts, row_rec, before, conv>>

\* 3) an address line is skipped.
HG_Address ==
    /\ CanRead
    /\ \E raw \in HouseLines(Len(lines) + 1) :
        LET s == HouseStrip(raw) IN
            /\ s # EmptyText
            /\ ~is_household_header(s)
            /\ ~is_plain_honorific_header(s)
            /\ app_is_address_line(s)
            /\ Consume(raw)
    /\ UNCHANGED <<df, col_index, r, pc, section, in_bia, current_people, current_parcels,
                   rows, starts, row_rec, before, conv>>

\* 4) any other line: its person, if it gives one, joins the record.
HG_Person ==
    /\ CanRead
    /\ \E raw \in HouseLines(Len(lines) + 1) :
        LET s == HouseStrip(raw)
            p == house_parse_person(s)
        IN  /\ s # EmptyText
            /\ ~is_household_header(s)
            /\ ~is_plain_honorific_header(s)
            /\ ~app_is_address_line(s)
            /\ Consume(raw)
            /\ current_people' = IF p # None THEN Append(current_people, p)
                                 ELSE current_people
    /\ UNCHANGED <<df, col_index, r, pc, section, in_bia, current_parcels,
                   rows, starts, row_rec, before, conv>>

\* Mutant: the records are returned without the last flush.
HG_End_no_flush ==
    /\ pc = "scan"
    /\ pc' = "done"
    /\ UNCHANGED <<lines, df, col_index, r, section, in_bia, current_people,
                   current_parcels, rows, starts, row_rec, before, conv>>

\* End of the input: flush() and return records.
HG_End ==
    /\ pc = "scan"
    /\ LET f == flush(rows, current_people) IN
        /\ rows' = f.records
        /\ current_people' = f.current_people
    /\ pc' = "done"
    /\ UNCHANGED <<lines, df, col_index, r, section, in_bia, current_parcels,
                   starts, row_rec, before, conv>>

InitHouse ==
    /\ lines = <<>>
    /\ pc = "scan"
    /\ current_people = <<>>
    /\ rows = <<>>
    /\ current_parcels = <<>>
    /\ df = <<>>
    /\ col_index = 0
    /\ r = 0
    /\ section = "None"
    /\ in_bia = FALSE
    /\ starts = <<>>
    /\ row_rec = <<>>
    /\ before = <<>>
    /\ conv = <<>>

NextHouse ==
    \/ HG_Blank
    \/ HG_Household
    \/ HG_Honorific
    \/ HG_Address
    \/ HG_Person
    \/ HG_End

SpecHouse == InitHouse /\ [][NextHouse]_vars

\* ===================================================================
\* parse_person on one line of text.
\*
\* A person line is represented by the pieces the regexes of parse_person
\* look for, in the order they stand in the line:
\*   lead   what the line starts with: nothing, an honorific ("Ong"),
\*          the household prefix ("Ho ong:") or an address keyword
\*   name   the words from there to the first comma / keyword / digit
\*   year   the four digits after "sinh nam"       ("" when absent)
\*   dob    the date after "sinh ngay"             ("" when absent)
\*   label  an ID keyword (CMND, CCCD, CMT) stands before run
\*   run    the run of digits and separators after the label position
\*   extra  a later run of digits and separators, without label
\*   issue  the wording before the issue date: "cap ngay", "ngay cap"
\*          or "" when the line has no issue date
\* A run is a sequence of characters; "U+FF11" is FULLWIDTH DIGIT ONE,
\* a decimal digit outside ASCII.
\* ===================================================================
AsciiDigit == {"0", "1", "2", "3", "4", "5", "6", "7", "8", "9"}

\* \d in a str pattern: every Unicode decimal digit.
DecimalDigit == AsciiDigit \cup {"U+FF11"}

\* [\s\-.]
RunSeparator == {" ", "-", "."}

Run9 == <<"2", "2", "0", "5", "1", "5", "3", "6", "9">>

Run8 == <<"1", "2", "3", "4", "5", "6", "7", "8">>

Run12 == <<"0", "1", "2", " ", "3", "4", "5", " ", "6", "7", "8", " ", "9", "0", "1">>

Run13 == <<"1", "2", "3", "4", "5", "6", "7", "8", "9", "0", "1", "2", "3">>

RunWide == <<"U+FF11", "U+FF11", "U+FF11", "U+FF11", "U+FF11", "U+FF11",
             "U+FF11", "U+FF11", "U+FF11">>

RunWideLast == <<"1", "2", "3", "4", "5", "6", "7", "8", "U+FF11">>

Runs == {<<>>, Run9, Run8, Run12, Run13, RunWide, RunWideLast}

Honorifics == {"Ong", "Ba", "Anh", "Chi", "Co", "Chu", "Bac", "Em"}

Names == {<<>>, <<"Nguyen", "A">>, <<"Bac">>, <<"Anh", "Tuan">>}

IssueDate == "04/01/1997"

PersonLines ==
    [lead  : {"", "Ong", "Ho ong:", "Dia chi:"},
     name  : Names,
     year  : {"", "1938"},
     dob   : {"", "02/03/1940"},
     label : BOOLEAN,
     run   : Runs,
     extra : {<<>>, Run9, RunWide},
     issue : {"", "cap ngay", "ngay cap"}]

\* re.sub(r'\D', '', token), then the length test.
normalize_id(token) ==
    LET digits == SelectSeq(token, LAMBDA c : c \in DecimalDigit)
    IN  IF 9 <= Len(digits) /\ Len(digits) <= 12 THEN digits ELSE <<>>

\* is_address_line on a person line: the line starts with an address keyword.
PL_is_address_line(s) == s.lead = "Dia chi:"

\* is_person_like: an ID keyword or "Sinh nam" / "Sinh ngay" stands in the line.
is_person_like(s) == s.label \/ s.year # "" \/ s.dob # ""

\* HONORIFIC.sub('', name): a leading honorific word is removed.
HONORIFIC_sub(name) ==
    IF name # <<>> /\ name[1] \in Honorifics THEN Tail(name) ELSE name

\* m_name: the optional lead is consumed by the regex, the words up to
\* the first comma or keyword are captured; then HONORIFIC.sub and strip.
PersonName(s) == HONORIFIC_sub(s.name)

\* m_id_labeled group 1, [0-9][0-9\-\s\.]{7,24}\d right after the label:
\* the longest prefix of the run of that shape (<<>>: no match).
LabeledCapture(run) ==
    LET ok(n) == /\ run[1] \in AsciiDigit
                 /\ \A i \in 2..(n - 1) : run[i] \in AsciiDigit \cup RunSeparator
                 /\ run[n] \in DecimalDigit
        N == {n \in 9..Len(run) : n <= 26 /\ ok(n)}
    IN  IF N = {} THEN <<>>
        ELSE SubSeq(run, 1, CHOOSE n \in N : \A m \in N : m <= n)

\* RE_ID on a maximal run of digits and separators: \b(\d[\d\s\-.]{7,24}\d)\b
RE_ID_match(run) ==
    IF /\ 9 <= Len(run) /\ Len(run) <= 26
       /\ run[1] \in DecimalDigit /\ run[Len(run)] \in DecimalDigit
       /\ \A i \in 1..Len(run) : run[i] \in DecimalDigit \cup RunSeparator
    THEN run ELSE <<>>

\* RE_ID.findall(s): the runs of the line, in line order.
RE_ID_findall(s) ==
    SelectSeq(<<RE_ID_match(s.run), RE_ID_match(s.extra)>>, LAMBDA t : t # <<>>)

\* The first token of the list that normalizes to an ID (<<>>: none).
RECURSIVE FirstValidId(_)
FirstValidId(toks) ==
    IF toks = <<>> THEN <<>>
    ELSE IF normalize_id(Head(toks)) # <<>> THEN normalize_id(Head(toks))
    ELSE FirstValidId(Tail(toks))

\* The id_number of parse_person: the labeled match first, then the scan.
PersonId(s) ==
    LET m_id_labeled == IF s.label THEN LabeledCapture(s.run) ELSE <<>>
        labeled == IF m_id_labeled # <<>> THEN normalize_id(m_id_labeled) ELSE <<>>
    IN  IF labeled # <<>> THEN labeled ELSE FirstValidId(RE_ID_findall(s))

\* birth_year or dob: the year is looked for first.
PersonBirth(s) == IF s.year # "" THEN s.year ELSE s.dob

\* Mutant: a line needs a name only.
xuatdulieu_parse_person_name_only(s) ==
    IF PL_is_address_line(s) \/ ~is_person_like(s) THEN None
    ELSE IF PersonName(s) = <<>> THEN None
    ELSE [full_name |-> PersonName(s), birth_year |-> PersonBirth(s),
          id_number |-> PersonId(s),
          issue_date |-> IF s.issue # "" THEN IssueDate ELSE "",
          address |-> ""]

\* parse_person of xuatdulieu.py (app_excel3.py and appexcel2.py agree
\* on the cases modelled): both orders of "cap" and "ngay" are matched.
xuatdulieu_parse_person(s) ==
    IF PL_is_address_line(s) \/ ~is_person_like(s) THEN None
    ELSE IF PersonName(s) = <<>>
            \/ (PersonId(s) = <<>> /\ s.year = "" /\ s.dob = "") THEN None
    ELSE [full_name |-> PersonName(s), birth_year |-> PersonBirth(s),
          id_number |-> PersonId(s),
          issue_date |-> IF s.issue # "" THEN IssueDate ELSE "",
          address |-> ""]

\* m_id_labeled group 1 of app.py, [0-9\-\s]{7,20}\d after the label.
AppLabeledCapture(run) ==
    LET ok(n) == /\ \A i \in 1..(n - 1) : run[i] \in AsciiDigit \cup {" ", "-"}
                 /\ run[n] \in DecimalDigit
        N == {n \in 8..Len(run) : n <= 21 /\ ok(n)}
    IN  IF N = {} THEN <<>>
        ELSE SubSeq(run, 1, CHOOSE n \in N : \A m \in N : m <= n)

\* RE_ID of app.py on a maximal run: \b(\d[\d\s\-]{7,20}\d)\b
AppRE_ID_match(run) ==
    IF /\ 9 <= Len(run) /\ Len(run) <= 22
       /\ run[1] \in DecimalDigit /\ run[Len(run)] \in DecimalDigit
       /\ \A i \in 1..Len(run) : run[i] \in DecimalDigit \cup {" ", "-"}
    THEN run ELSE <<>>

AppRE_ID_findall(s) ==
    SelectSeq(<<AppRE_ID_match(s.run), AppRE_ID_match(s.extra)>>, LAMBDA t : t # <<>>)

AppPersonId(s) ==
    LET m_id_labeled == IF s.label THEN AppLabeledCapture(s.run) ELSE <<>>
        labeled == IF m_id_labeled # <<>> THEN normalize_id(m_id_labeled) ELSE <<>>
    IN  IF labeled # <<>> THEN labeled ELSE FirstValidId(AppRE_ID_findall(s))

\* parse_person of app.py: the issue date is matched after "cap ngay"
\* only, and the dict has no address.
app_parse_person(s) ==
    IF PL_is_address_line(s) \/ ~is_person_like(s) THEN None
    ELSE IF PersonName(s) = <<>>
            \/ (AppPersonId(s) = <<>> /\ s.year = "" /\ s.dob = "") THEN None
    ELSE [full_name |-> PersonName(s), birth_year |-> PersonBirth(s),
          id_number |-> AppPersonId(s),
          issue_date |-> IF s.issue = "cap ngay" THEN IssueDate ELSE ""]

\* One call of parse_person: lines holds the line, current_people the
\* person returned (empty for None).
InitPerson ==
    /\ lines \in {<<s>> : s \in PersonLines}
    /\ pc = "call"
    /\ current_people = <<>>
    /\ df = <<>>
    /\ col_index = 0
    /\ r = 0
    /\ section = "None"
    /\ in_bia = FALSE
    /\ current_parcels = <<>>
    /\ rows = <<>>
    /\ starts = <<>>
    /\ row_rec = <<>>
    /\ before = <<>>
    /\ conv = <<>>

PP_Call ==
    /\ pc = "call"
    /\ LET p == xuatdulieu_parse_person(lines[1]) IN
        current_people' = IF p # None THEN <<p>> ELSE <<>>
    /\ pc' = "ret"
    /\ UNCHANGED <<lines, df, col_index, r, section, in_bia, current_parcels,
                   rows, starts, row_rec, before, conv>>

PP_App_Call ==
    /\ pc = "call"
    /\ LET p == app_parse_person(lines[1]) IN
        current_people' = IF p # None THEN <<p>> ELSE <<>>
    /\ pc' = "ret_app"
    /\ UNCHANGED <<lines, df, col_index, r, section, in_bia, current_parcels,
                   rows, starts, row_rec, before, conv>>

NextPerson == PP_Call \/ PP_App_Call

SpecPerson == InitPerson /\ [][NextPerson]_vars

\* ===================================================================
\* parse_parcel_line_v2 on one line of text, and the area columns of
\* the table read of app_excel3.
\*
\* A text is a sequence of characters; the letters outside ASCII are
\* named by their code point ("U+00F4" is o with circumflex).  A parcel
\* line is the date, the parcel and map sheet numbers and then, each
\* separated by one space, the tokens of ParcelTokens(s):
\*   the word "Rieng" (label_r), the private area text (rieng),
\*   the word "Chung" (label_c), the shared area text (chung, may be
\*   absent), the purpose code "ONT" (code), the words "Lau" "dai"
\*   (term), and "DG-KTT" "BM123456" "CH789" (tail).
\* ===================================================================
AsciiUpper == {"A", "B", "C", "D", "E", "F", "G", "H", "I", "J", "K", "L", "M",
               "N", "O", "P", "Q", "R", "S", "T", "U", "V", "W", "X", "Y", "Z"}

AsciiLower == {"a", "b", "c", "d", "e", "f", "g", "h", "i", "j", "k", "l", "m",
               "n", "o", "p", "q", "r", "s", "t", "u", "v", "w", "x", "y", "z"}

\* [a-zA-Z]
AsciiLetter == AsciiUpper \cup AsciiLower

\* The letters with diacritics used below: e^ a^ a` o^ O^ O-horn-hook.
OtherLetter == {"U+00EA", "U+00E2", "U+00E0", "U+00F4", "U+00D4", "U+1EDE"}

\* \w
WordChar == AsciiLetter \cup OtherLetter \cup DecimalDigit \cup {"_"}

T_Rieng == <<"R", "i", "U+00EA", "n", "g">>

T_Chung == <<"C", "h", "u", "n", "g">>

T_Khong == <<"K", "h", "U+00F4", "n", "g">>

T_khong == <<"k", "h", "U+00F4", "n", "g">>

T_KHONG == <<"K", "H", "U+00D4", "N", "G">>

T_O == <<"U+1EDE">>

T_150_5 == <<"1", "5", "0", ".", "5">>

T_150c5 == <<"1", "5", "0", ",", "5">>

T_0 == <<"0">>

T_ONT == <<"O", "N", "T">>

T_Lau == <<"L", "U+00E2", "u">>

T_dai == <<"d", "U+00E0", "i">>

T_DG_KTT == <<"D", "G", "-", "K", "T", "T">>

T_BM123456 == <<"B", "M", "1", "2", "3", "4", "5", "6">>

T_CH789 == <<"C", "H", "7", "8", "9">>

\* What can stand where an area is expected.
AreaTexts == {T_150_5, T_150c5, T_0, T_Khong, T_khong, T_KHONG, T_O}

ParcelLines ==
    [label_r : BOOLEAN, rieng : AreaTexts,
     label_c : BOOLEAN, chung : AreaTexts \cup {<<>>},
     code : BOOLEAN, term : BOOLEAN, tail : BOOLEAN]

\* rest2: the tokens after the date and the two numbers, in line order.
ParcelTokens(s) ==
    (IF s.label_r THEN <<T_Rieng>> ELSE <<>>)
    \o <<s.rieng>>
    \o (IF s.label_c THEN <<T_Chung>> ELSE <<>>)
    \o (IF s.chung # <<>> THEN <<s.chung>> ELSE <<>>)
    \o (IF s.code THEN <<T_ONT>> ELSE <<>>)
    \o (IF s.term THEN <<T_Lau, T_dai>> ELSE <<>>)
    \o (IF s.tail THEN <<T_DG_KTT, T_BM123456, T_CH789>> ELSE <<>>)

\* s.replace(',', '.')
ReplaceComma(t) == [i \in 1..Len(t) |-> IF t[i] = "," THEN "." ELSE t[i]]

\* _num: the comma becomes a dot; a text holding an ASCII letter gives ''.
num(t) ==
    LET s_norm == ReplaceComma(t) IN
    IF s_norm = <<>> \/ \E i \in 1..Len(s_norm) : s_norm[i] \in AsciiLetter
    THEN <<>> ELSE s_norm

\* m_r, m_c: ([\d.,]+|\S+)(.*)$ takes the first token of the rest.
FirstToken(rest) == IF rest = <<>> THEN <<>> ELSE Head(rest)

AfterFirstToken(rest) == IF rest = <<>> THEN <<>> ELSE Tail(rest)

\* The length of the longest prefix of t made of [A-Z].
RECURSIVE UpperPrefixLen(_)
UpperPrefixLen(t) ==
    IF t = <<>> \/ Head(t) \notin AsciiUpper THEN 0
    ELSE 1 + UpperPrefixLen(Tail(t))

\* m_md: ([A-Z]{2,5})\b at the start of the rest; <<>> when it does not match.
PurposeMatch(rest) ==
    IF rest = <<>> THEN <<>>
    ELSE LET t == Head(rest)
             n == UpperPrefixLen(t)
         IN  IF 2 <= n /\ n <= 5 /\ (n = Len(t) \/ t[n + 1] \notin WordChar)
             THEN SubSeq(t, 1, n) ELSE <<>>

\* rest5: what follows the purpose match (the remainder of a token the
\* match cut stays in the rest).
AfterPurpose(rest) ==
    LET m == PurposeMatch(rest) IN
    IF m = <<>> THEN rest
    ELSE IF Len(m) = Len(Head(rest)) THEN Tail(rest)
    ELSE <<SubSeq(Head(rest), Len(m) + 1, Len(Head(rest)))>> \o Tail(rest)

\* m_th: (Lau\s*dai|date)\b at the start of the rest.
TermMatches(rest) == Len(rest) >= 2 /\ rest[1] = T_Lau /\ rest[2] = T_dai

\* m_ng: a token of the shape [A-Z]{2,4}-[A-Z]{2,4}.
IsOrigin(t) ==
    \E n \in 2..4 :
        /\ Len(t) >= n + 3 /\ Len(t) <= n + 5
        /\ t[n + 1] = "-"
        /\ \A i \in 1..Len(t) : i # n + 1 => t[i] \in AsciiUpper

\* m_ph and m_vs: a token of one to three capitals and at least k digits.
IsSerial(t, k) ==
    LET n == UpperPrefixLen(t) IN
    /\ 1 <= n /\ n <= 3
    /\ Len(t) - n >= k
    /\ \A i \in (n + 1)..Len(t) : t[i] \in DecimalDigit

\* re.search: the first of the matching tokens, '' when there is none.
FirstWhere(f) == IF f = <<>> THEN <<>> ELSE f[1]

\* findall(...)[-1]: the last of the matching tokens, '' when there is none.
LastWhere(f) == IF f = <<>> THEN <<>> ELSE f[Len(f)]

\* parse_parcel_line_v2 of xuatdulieu.py on the line
\* "05/06/2001 12 3 " followed by the tokens: the positional parse.
xuatdulieu_parse_parcel(s) ==
    LET rest2 == ParcelTokens(s)
        rest3 == AfterFirstToken(rest2)
        rest4 == AfterFirstToken(rest3)
        rest5 == AfterPurpose(rest4)
        rest6 == IF TermMatches(rest5) THEN SubSeq(rest5, 3, Len(rest5)) ELSE rest5
    IN  [ngay_thang_vao_so |-> "05/06/2001",
         so_thu_tu_thua_dat |-> "12",
         so_thu_tu_to_ban_do |-> "3",
         dt_rieng_m2 |-> num(FirstToken(rest2)),
         dt_chung_m2 |-> num(FirstToken(rest3)),
         muc_dich_su_dung |-> PurposeMatch(rest4),
         thoi_han_su_dung |-> IF TermMatches(rest5) THEN T_Lau \o <<" ">> \o T_dai ELSE <<>>,
         nguon_goc_su_dung |-> FirstWhere(SelectSeq(rest6, IsOrigin)),
         so_phat_hanh_gcn |-> FirstWhere(SelectSeq(rest6, LAMBDA t : IsSerial(t, 4))),
         so_vao_so |-> LastWhere(SelectSeq(rest6, LAMBDA t : IsSerial(t, 3)))]

\* str.replace(pat, ''): every occurrence of pat is removed, left to right.
RECURSIVE RemoveAll(_, _)
RemoveAll(t, pat) ==
    IF Len(t) < Len(pat) THEN t
    ELSE IF SubSeq(t, 1, Len(pat)) = pat
         THEN RemoveAll(SubSeq(t, Len(pat) + 1, Len(t)), pat)
         ELSE <<Head(t)>> \o RemoveAll(Tail(t), pat)

\* app_excel3: g('rieng').replace(',', '.').replace('Khong','').replace('khong','')
Area3(cell_text) == RemoveAll(RemoveAll(ReplaceComma(cell_text), T_Khong), T_khong)

\* The parcel app_excel3 reads from a data row whose area cells hold the
\* two area texts of s.
Thua3Areas(s) == [rieng |-> Area3(s.rieng), chung |-> Area3(s.chung)]

\* One call: lines holds the line, current_parcels the parcel returned.
InitParcel ==
    /\ lines \in {<<s>> : s \in ParcelLines}
    /\ pc = "call"
    /\ current_parcels = <<>>
    /\ current_people = <<>>
    /\ df = <<>>
    /\ col_index = 0
    /\ r = 0
    /\ section = "None"
    /\ in_bia = FALSE
    /\ rows = <<>>
    /\ starts = <<>>
    /\ row_rec = <<>>
    /\ before = <<>>
    /\ conv = <<>>

PPL_Call ==
    /\ pc = "call"
    /\ current_parcels' = <<xuatdulieu_parse_parcel(lines[1])>>
    /\ pc' = "ret"
    /\ UNCHANGED <<lines, df, col_index, r, section, in_bia, current_people,
                   rows, starts, row_rec, before, conv>>

D3_Areas_Call ==
    /\ pc = "call"
    /\ current_parcels' = <<Thua3Areas(lines[1])>>
    /\ pc' = "ret3"
    /\ UNCHANGED <<lines, df, col_index, r, section, in_bia, current_people,
                   rows, starts, row_rec, before, conv>>

NextParcel == PPL_Call \/ D3_Areas_Call

SpecParcel == InitParcel /\ [][NextParcel]_vars

\* ---- parse_parcel_line_v2 from the start of the line: the leading date.
\* [\/\-.] between the parts of a date.
DateSep == {"/", "-", "."}

L_date == <<"0", "5", "/", "0", "6", "/", "2", "0", "0", "1">>

L_short == <<"5", "-", "6", "-", "0", "1">>

L_dots == <<"1", ".", "1", ".", "9", "9">>

L_wide == <<"U+FF11", "/", "2", "/", "2", "0", "0", "1">>

L_year5 == <<"0", "5", "/", "0", "6", "/", "2", "0", "0", "1", "2">>

L_glued == <<"0", "5", "/", "0", "6", "/", "2", "0", "0", "1", "x">>

L_day3 == <<"1", "2", "3", "/", "0", "6", "/", "2", "0", "0", "1">>

L_noyear == <<"0", "5", "/", "0", "6">>

L_word == <<"N", "g", "a", "y">>

\* What a line can start with; <<>> is a line that starts with what
\* follows.  A date match takes a lead whole or fails.
Leads ==
    {L_date, L_short, L_dots, L_wide, L_year5, L_glued, L_day3, L_noyear, L_word, <<>>}

\* The line that ends after its lead and its numbers.
NoBody ==
    [label_r |-> FALSE, rieng |-> <<>>, label_c |-> FALSE, chung |-> <<>>,
     code |-> FALSE, term |-> FALSE, tail |-> FALSE]

\* A line: the lead, " 12 3" when nums, then the tokens of the body.  With
\* no numbers the body starts with the label of the private area, so that
\* m12 finds no two numbers at the start of the rest.
DatedLines ==
    {s \in [lead : Leads, nums : BOOLEAN,
            body : {NoBody} \cup {b \in ParcelLines :
                                     /\ b.label_r /\ b.label_c
                                     /\ b.rieng \in {T_150_5, T_Khong}
                                     /\ b.chung \in {T_0, <<>>}}] :
        TRUE}

IsDigits(t, from, to) == \A i \in from..to : t[i] \in DecimalDigit

\* (\d{1,2}[\/\-.]\d{1,2}[\/\-.]\d{2,4})\b with parts of a, b and c digits.
DateShape(t, a, b, c) ==
    /\ Len(t) >= a + b + c + 2
    /\ IsDigits(t, 1, a)
    /\ t[a + 1] \in DateSep
    /\ IsDigits(t, a + 2, a + b + 1)
    /\ t[a + b + 2] \in DateSep
    /\ IsDigits(t, a + b + 3, a + b + c + 2)
    /\ (Len(t) = a + b + c + 2 \/ t[a + b + c + 3] \notin WordChar)

\* m0: the length of the date re.match finds at the start of t, 0 when it
\* finds none; the quantifiers are greedy, the longest part is tried first.
m0_len(t) ==
    LET M == {abc \in (1..2) \X (1..2) \X (2..4) : DateShape(t, abc[1], abc[2], abc[3])}
        first == CHOOSE x \in M : \A y \in M :
                     \/ x[1] > y[1]
                     \/ (x[1] = y[1] /\ x[2] > y[2])
                     \/ (x[1] = y[1] /\ x[2] = y[2] /\ x[3] >= y[3])
    IN  IF M = {} THEN 0 ELSE first[1] + first[2] + first[3] + 2

\* Mutant: a line with no parcel and sheet number after the date is rejected.
parse_parcel_line_v2_needs_numbers(s) ==
    IF s.lead = <<>> /\ ~s.nums /\ s.body = NoBody THEN None
    ELSE IF m0_len(s.lead) = 0 THEN None
    ELSE IF ~s.nums THEN None
    ELSE [xuatdulieu_parse_parcel(s.body) EXCEPT
             !.ngay_thang_vao_so = SubSeq(s.lead, 1, m0_len(s.lead))]

\* parse_parcel_line_v2 of xuatdulieu.py on a whole line: None for an empty
\* line and when m0 does not match; m12 gives the two numbers or ''.
xuatdulieu_parse_parcel_line_v2(s) ==
    IF s.lead = <<>> /\ ~s.nums /\ s.body = NoBody THEN None
    ELSE IF m0_len(s.lead) = 0 THEN None
    ELSE [xuatdulieu_parse_parcel(s.body) EXCEPT
             !.ngay_thang_vao_so = SubSeq(s.lead, 1, m0_len(s.lead)),
             !.so_thu_tu_thua_dat = IF s.nums THEN "12" ELSE "",
             !.so_thu_tu_to_ban_do = IF s.nums THEN "3" ELSE ""]

\* group_records in section II: the parcel is appended when there is one.
InitDated ==
    /\ lines \in {<<s>> : s \in DatedLines}
    /\ pc = "call"
    /\ current_parcels = <<>>
    /\ current_people = <<>>
    /\ df = <<>>
    /\ col_index = 0
    /\ r = 0
    /\ section = "II"
    /\ in_bia = TRUE
    /\ rows = <<>>
    /\ starts = <<>>
    /\ row_rec = <<>>
    /\ before = <<>>
    /\ conv = <<>>

PPLD_Call ==
    /\ pc = "call"
    /\ LET thua == xuatdulieu_parse_parcel_line_v2(lines[1]) IN
        /\ rows' = <<thua>>
        /\ current_parcels' = IF thua # None THEN Append(current_parcels, thua)
                              ELSE current_parcels
    /\ pc' = "ret"
    /\ UNCHANGED <<lines, df, col_index, r, section, in_bia, current_people,
                   starts, row_rec, before, conv>>

NextDated == PPLD_Call

SpecDated == InitDated /\ [][NextDated]_vars

\* ===================================================================
\* The encoding rescuer: convert_best and fix_mixed_to_unicode of
\* test.py, fix_mixed_tcvn3_to_unicode of app_excel3.py.
\*
\* A text is the sequence of the parts re.split gives: word tokens and
\* the whitespace runs between them.  The word tokens are
\*   "n-i"   the mojibake of "noi" with horn (holds a legacy marker)
\*   "noi"   the word "noi" with horn, one of the keywords of score_vn
\*   "noi_s" "noi" with horn and acute,  "noi_h" with horn and grave
\* The Converter is external: conv.detectCharset[tok] is the code page
\* it reports for a token ("" for None, "Raise" when the call raises),
\* conv.convert[<<tok, cs>>] the token it returns ("Raise" when the
\* call raises); converting a text converts its word tokens.
\* ===================================================================
CANDIDATES ==
    <<"TCVN3", "VNI_WIN", "VPS_WIN", "VIETWARE_X", "VIETWARE_F", "VISCII", "VIQR">>

\* The number of code pages of CANDIDATES the Converter is asked about.
MaxCands == 2

Cands == SubSeq(CANDIDATES, 1, IF MaxCands <= 7 THEN MaxCands ELSE 7)

WhiteSpace == {" ", "  "}

BestTokens == {"n-i", "noi", "noi_s", "noi_h"}

RescueTokens == {"n-i", "noi"}

\* tok.isspace()
isspace(tok) == tok \in WhiteSpace

\* LEGACY_MARKERS.search(text)
LEGACY_MARKERS_search(text) == \E i \in 1..Len(text) : text[i] = "n-i"

\* len(VN_UNI.findall(tok)): the letters with diacritics of a token.
VnCount(tok) == IF tok \in {"noi", "noi_s", "noi_h"} THEN 1 ELSE 0

\* The keywords of score_vn found in a token.
KeywordsIn(tok) == IF tok = "noi" THEN {"noi"} ELSE {}

RECURSIVE SumVn(_)
SumVn(text) == IF text = <<>> THEN 0 ELSE VnCount(Head(text)) + SumVn(Tail(text))

\* score_vn: the letters with diacritics, plus 3 for every keyword present.
score_vn(text) ==
    SumVn(text) + 3 * Cardinality(UNION {KeywordsIn(text[i]) : i \in 1..Len(text)})

\* What stands for the exception a call lets escape.
Raised == <<"Raise">>

\* conv.convert(text, target_charset="UNICODE", source_charset=cs)
conv_convert(text, cs) ==
    IF \E i \in 1..Len(text) :
           ~isspace(text[i]) /\ conv.convert[<<text[i], cs>>] = "Raise"
    THEN Raised
    ELSE [i \in 1..Len(text) |->
             IF isspace(text[i]) THEN text[i] ELSE conv.convert[<<text[i], cs>>]]

\* Mutant: a candidate that scores as much as the best so far replaces it.
RECURSIVE convert_best_loop_ge(_, _, _)
convert_best_loop_ge(s, best, k) ==
    IF k > Len(Cands) THEN best
    ELSE LET t == conv_convert(s, Cands[k]) IN
         IF t = Raised THEN convert_best_loop_ge(s, best, k + 1)
         ELSE IF score_vn(t) >= score_vn(best) THEN convert_best_loop_ge(s, t, k + 1)
         ELSE convert_best_loop_ge(s, best, k + 1)

\* The loop of convert_best from candidate k on (best_sc is score_vn(best)).
RECURSIVE convert_best_loop(_, _, _)
convert_best_loop(s, best, k) ==
    IF k > Len(Cands) THEN best
    ELSE LET t == conv_convert(s, Cands[k]) IN
         IF t = Raised THEN convert_best_loop(s, best, k + 1)
         ELSE IF score_vn(t) > score_vn(best) THEN convert_best_loop(s, t, k + 1)
         ELSE convert_best_loop(s, best, k + 1)

convert_best(s) == convert_best_loop(s, s, 1)

\* The loop body of fix_mixed_to_unicode for one part of the split.
FixToken(tok) ==
    IF isspace(tok) THEN tok
    ELSE LET cs == conv.detectCharset[tok] IN
         IF cs # "" /\ cs # "UNICODE"
         THEN IF conv.convert[<<tok, cs>>] = "Raise" THEN tok
              ELSE conv.convert[<<tok, cs>>]
         ELSE IF LEGACY_MARKERS_search(<<tok>>) THEN convert_best(<<tok>>)[1]
         ELSE tok

\* detectCharset is called outside of any try: when it raises on a
\* token, the exception leaves the function.
DetectRaises(s) ==
    \E i \in 1..Len(s) : ~isspace(s[i]) /\ conv.detectCharset[s[i]] = "Raise"

\* "".join(out) after the token loop.
TokenPass(s) == [i \in 1..Len(s) |-> FixToken(s[i])]

fix_mixed_to_unicode(s) ==
    IF DetectRaises(s) THEN Raised
    ELSE LET result == TokenPass(s) IN
         IF LEGACY_MARKERS_search(result)
         THEN LET candidate == convert_best(result) IN
              IF score_vn(candidate) > score_vn(result) THEN candidate ELSE result
         ELSE result

\* fix_mixed_tcvn3_to_unicode of app_excel3: only a token detected as
\* TCVN3 is converted; there is no second pass.
fix_mixed_tcvn3_to_unicode(s) ==
    IF DetectRaises(s) THEN Raised
    ELSE [i \in 1..Len(s) |->
             IF isspace(s[i]) THEN s[i]
             ELSE LET cs == conv.detectCharset[s[i]] IN
                  IF cs # "" /\ cs # "UNICODE" /\ cs = "TCVN3"
                  THEN IF conv.convert[<<s[i], "TCVN3">>] = "Raise" THEN s[i]
                       ELSE conv.convert[<<s[i], "TCVN3">>]
                  ELSE s[i]]

\* The answers of the Converter over a set of tokens.
Converters(toks, detects, results) ==
    [detectCharset : [toks -> detects],
     convert : [toks \X {Cands[k] : k \in 1..Len(Cands)} -> results \cup {"Raise"}]]

\* ---- convert_best alone: lines is the text s, rows holds what is
\* returned; the Converter answers for the one token of s.
InitBest ==
    /\ \E t \in BestTokens :
          /\ lines = <<t>>
          /\ conv \in Converters({t}, {"UNICODE"}, BestTokens)
    /\ pc = "call"
    /\ rows = <<>>
    /\ current_people = <<>>
    /\ current_parcels = <<>>
    /\ df = <<>>
    /\ col_index = 0
    /\ r = 0
    /\ section = "None"
    /\ in_bia = FALSE
    /\ starts = <<>>
    /\ row_rec = <<>>
    /\ before = <<>>

CB_Call ==
    /\ pc = "call"
    /\ rows' = <<convert_best(lines)>>
    /\ pc' = "ret"
    /\ UNCHANGED <<lines, df, col_index, r, section, in_bia, current_people,
                   current_parcels, starts, row_rec, before, conv>>

NextBest == CB_Call

SpecBest == InitBest /\ [][NextBest]_vars

\* ---- the rescuers: lines is the input text, rows the texts returned.
RescueTexts ==
    {<<t>> : t \in RescueTokens}
    \cup {<<t, w, u>> : t \in RescueTokens, w \in WhiteSpace, u \in RescueTokens}

InitRescue ==
    /\ lines \in RescueTexts
    /\ conv \in Converters(RescueTokens,
                           {"UNICODE", "", "Raise"} \cup {Cands[k] : k \in 1..Len(Cands)},
                           RescueTokens)
    /\ pc = "call"
    /\ rows = <<>>
    /\ current_people = <<>>
    /\ current_parcels = <<>>
    /\ df = <<>>
    /\ col_index = 0
    /\ r = 0
    /\ section = "None"
    /\ in_bia = FALSE
    /\ starts = <<>>
    /\ row_rec = <<>>
    /\ before = <<>>

\* fix_mixed_to_unicode(x)
FM_Call ==
    /\ pc = "call"
    /\ rows' = <<fix_mixed_to_unicode(lines)>>
    /\ pc' = "ret"
    /\ UNCHANGED <<lines, df, col_index, r, section, in_bia, current_people,
                   current_parcels, starts, row_rec, before, conv>>

\* fix_mixed_to_unicode applied to what the first call returned.
FM_CallAgain ==
    /\ pc = "ret"
    /\ rows[1] # Raised
    /\ rows' = Append(rows, fix_mixed_to_unicode(rows[1]))
    /\ pc' = "ret2"
    /\ UNCHANGED <<lines, df, col_index, r, section, in_bia, current_people,
                   current_parcels, starts, row_rec, before, conv>>

\* fix_mixed_tcvn3_to_unicode(x)
FM3_Call ==
    /\ pc = "call"
    /\ rows' = <<fix_mixed_tcvn3_to_unicode(lines)>>
    /\ pc' = "ret3"
    /\ UNCHANGED <<lines, df, col_index, r, section, in_bia, current_people,
                   current_parcels, starts, row_rec, before, conv>>

NextRescue == FM_Call \/ FM_CallAgain \/ FM3_Call

SpecRescue == InitRescue /\ [][NextRescue]_vars

\* ===================================================================
\* What the input read so far says, independently of the accumulators.
\* ===================================================================
Kind(k) == lines[k].kind

Range(s) == {s[i] : i \in 1..Len(s)}

Max(a, b) == IF a >= b THEN a ELSE b

RECURSIVE Sorted(_)
Sorted(S) ==
    IF S = {} THEN <<>>
    ELSE LET m == CHOOSE x \in S : \A y \in S : x <= y
         IN  <<m>> \o Sorted(S \ {m})

\* The position of the last section I title at or before position k (0: none).
RecOf(k) ==
    LET H == {j \in 1..k : Kind(j) = "I"} IN
    IF H = {} THEN 0 ELSE CHOOSE j \in H : \A i \in H : i <= j

\* Person line k stands in the persons section of its record.
InPersons(k) ==
    /\ Kind(k) = "person"
    /\ RecOf(k) # 0
    /\ \A j \in RecOf(k)..k : Kind(j) # "II"

\* Parcel line k stands in the parcels section of its record.
InParcels(k) ==
    /\ Kind(k) = "parcel"
    /\ RecOf(k) # 0
    /\ \E j \in RecOf(k)..k : Kind(j) = "II"

PersonsOf(h) == Sorted({k \in 1..Len(lines) : InPersons(k) /\ RecOf(k) = h})

ParcelsOf(h) == Sorted({k \in 1..Len(lines) : InParcels(k) /\ RecOf(k) = h})

NonEmpty(h) == PersonsOf(h) # <<>> \/ ParcelsOf(h) # <<>>

\* The record opened at h has met its flush.
Flushed(h) == h # Last(starts) \/ pc = "done"

\* The output rows of the record opened at h, in output order.
RowsOf(h) ==
    LET idx == Sorted({i \in 1..Len(rows) : row_rec[i] = h})
    IN  [j \in 1..Len(idx) |-> rows[idx[j]]]

ParcelFields(w) ==
    <<w.ngay_vao_so, w.so_thua, w.so_to, w.dt_rieng, w.dt_chung, w.muc_dich,
      w.thoi_han, w.nguon_goc, w.so_phat_hanh, w.so_vao_so>>

Owner1Fields(w) == <<w.ten_chu_1, w.nam_sinh_1, w.so_giay_to_1, w.ngay_cap_1>>

Owner2Fields(w) == <<w.ten_chu_2, w.nam_sinh_2, w.so_giay_to_2, w.ngay_cap_2>>

AllEmpty(f) == \A i \in 1..Len(f) : f[i] = 0

AllEqual(f, v) == \A i \in 1..Len(f) : f[i] = v

RowIsEmpty(w) ==
    /\ AllEmpty(ParcelFields(w))
    /\ AllEmpty(Owner1Fields(w)) /\ w.dia_chi_1 = ""
    /\ AllEmpty(Owner2Fields(w)) /\ w.dia_chi_2 = ""

\* The persons and parcels an output row names.
RowEntities(w) == (Range(ParcelFields(w)) \cup Range(Owner1Fields(w))
                      \cup Range(Owner2Fields(w))) \ {0}

\* ===================================================================
\* C1  Every section I title, in whatever state it arrives, starts a new
\*     record with no persons and no parcels and flushes the record in
\*     progress when that one holds a person or a parcel; no output row
\*     names a person or parcel read under another section I title than
\*     the one of its record.
\* ===================================================================
C1_SectionIStartsNewRecord ==
    /\ starts = Sorted({k \in 1..Len(lines) : Kind(k) = "I"})
    /\ (pc = "scan" /\ lines # <<>> /\ Kind(Len(lines)) = "I") =>
          /\ in_bia /\ section = "I"
          /\ current_people = <<>> /\ current_parcels = <<>>
    /\ \A i \in 1..Len(current_people) :
          RecOf(current_people[i].full_name) = Last(starts)
    /\ \A i \in 1..Len(current_parcels) :
          RecOf(current_parcels[i].ngay_thang_vao_so) = Last(starts)
    /\ \A i \in 1..Len(rows) :
          \A e \in RowEntities(rows[i]) : RecOf(e) = row_rec[i]
    /\ \A h \in Range(starts) :
          (h # Last(starts) /\ NonEmpty(h)) => RowsOf(h) # <<>>

\* A second title arrived in the parcels section of a record holding a
\* person or parcel, whose rows are out.
C1_Witness ==
    /\ pc = "scan"
    /\ Len(starts) = 2
    /\ \E j \in 1..starts[2] : Kind(j) = "II"
    /\ RowsOf(starts[1]) # <<>>
    /\ NonEmpty(starts[1])

\* ===================================================================
\* C2  In the tabular scans every row that is a section I title starts
\*     a new record: after the scan the records started are exactly the
\*     section I rows of the table, none skipped by the handling of a
\*     section II title (app_excel3: C2_..., appexcel2: C2_Df2_...).
\* ===================================================================
C2_EverySectionIRowStartsRecord ==
    pc = "done" =>
        starts = Sorted({k \in 1..Len(df) : row_has_section_I(df, k - 1)})

C2_Df2_EverySectionIRowStartsRecord ==
    pc = "done" =>
        starts = Sorted({k \in 1..Len(df) :
                            is_section_header_i(Cell2(df, k - 1, col_index))})

\* ===================================================================
\* C3  A record flushed with no person and no parcel gives no output
\*     row: every output row has a non-empty person or parcel field.
\* ===================================================================
C3_EmptyRecordDiscarded ==
    \A i \in 1..Len(rows) : ~RowIsEmpty(rows[i])

\* ===================================================================
\* C4  Row count law: a record flushed with a person or a parcel gives
\*     max(1, number of its parcels) rows: one per parcel, in parcel
\*     order, or one row whose ten parcel fields are empty.
\* ===================================================================
C4_RowCountLaw ==
    \A h \in Range(starts) :
        (Flushed(h) /\ NonEmpty(h)) =>
            LET Q == ParcelsOf(h)
                R == RowsOf(h)
            IN  /\ Len(R) = Max(1, Len(Q))
                /\ Q # <<>> => \A j \in 1..Len(R) : AllEqual(ParcelFields(R[j]), Q[j])
                /\ Q = <<>> => AllEmpty(ParcelFields(R[1]))

\* A second section I title arrived before any section II: the first
\* record, holding a person and no parcel, is out as one row.
C4_Witness ==
    /\ Len(starts) >= 2
    /\ PersonsOf(starts[1]) # <<>>
    /\ ParcelsOf(starts[1]) = <<>>
    /\ Len(RowsOf(starts[1])) = 1

\* ===================================================================
\* C5  Address propagation law: with exactly one distinct non-empty
\*     address among the people, everyone ends with it; with none or
\*     several, no address changes; a non-empty address is always kept.
\* ===================================================================
C5_PropagationLaw ==
    pc = "ret" =>
        LET S == {before[i].address : i \in 1..Len(before)} \ {""} IN
        /\ Len(current_people) = Len(before)
        /\ \A i \in 1..Len(before) :
            /\ Cardinality(S) = 1 => current_people[i].address \in S
            /\ Cardinality(S) # 1 => current_people[i].address = before[i].address
            /\ before[i].address # "" =>
                  current_people[i].address = before[i].address
            /\ [current_people[i] EXCEPT !.address = ""]
                  = [before[i] EXCEPT !.address = ""]

\* One address among three people, two of them without: both were filled.
C5_Witness ==
    /\ pc = "ret"
    /\ Len(before) >= 3
    /\ Cardinality({i \in 1..Len(before) : before[i].address = ""}) >= 2
    /\ \A i \in 1..Len(before) : current_people[i].address = "A"

\* ===================================================================
\* C6  In the persons section an address line changes the address of
\*     the most recently added person only: no other person's address
\*     changes at that step.
\* ===================================================================
C6_AddressLineStep ==
    /\ lines' # lines
    /\ lines'[Len(lines')].kind = "addr"
    /\ in_bia /\ section = "I"

C6_AddressLineSetsOnlyLast ==
    [][C6_AddressLineStep =>
          /\ Len(current_people') = Len(current_people)
          /\ \A i \in 1..(Len(current_people) - 1) :
                current_people'[i].address = current_people[i].address]_vars

\* ===================================================================
\* C7  In appexcel2 a record begins only at a section I title: as long
\*     as no section I title has been met, no person and no parcel is
\*     held and no output row exists.
\* ===================================================================
C7_NothingBeforeFirstSectionI ==
    starts = <<>> =>
        /\ current_people = <<>>
        /\ current_parcels = <<>>
        /\ rows = <<>>

\* ===================================================================
\* C8  A blank line changes nothing: section, in_bia, the persons and
\*     parcels in progress and the output rows stay as they are.
\* ===================================================================
C8_BlankLineStep ==
    /\ lines' # lines
    /\ lines'[Len(lines')].kind = "blank"

C8_BlankLineIgnored ==
    [][C8_BlankLineStep =>
          UNCHANGED <<section, in_bia, current_people, current_parcels,
                      rows, pc>>]_vars

\* A blank line was read inside a record, between a person and a parcel.
C8_Witness ==
    /\ \E k \in 2..Len(lines) : Kind(k) = "blank" /\ RecOf(k) # 0
    /\ current_people # <<>>
    /\ lines # <<>> /\ Kind(Len(lines)) = "blank"

\* ===================================================================
\* C9  After the end of the input every record holding a person or a
\*     parcel is in the output exactly once, nothing is left in
\*     progress, and the records' rows stand in the order of their
\*     section I titles.
\* ===================================================================
C9_FinalFlush ==
    pc = "done" =>
        /\ current_people = <<>> /\ current_parcels = <<>>
        /\ \A h \in Range(starts) : NonEmpty(h) => RowsOf(h) # <<>>
        /\ \A h \in Range(starts) :
              (NonEmpty(h) /\ ParcelsOf(h) = <<>>) => Len(RowsOf(h)) = 1
        /\ \A k \in 1..Len(lines) :
              InParcels(k) =>
                  Cardinality({i \in 1..Len(rows) : rows[i].ngay_vao_so = k}) = 1
        /\ \A i, j \in 1..Len(rows) : i < j => row_rec[i] <= row_rec[j]

\* Two records, each holding a person, are both out after the end.
C9_Witness ==
    /\ pc = "done"
    /\ Len(starts) = 2
    /\ NonEmpty(starts[1]) /\ NonEmpty(starts[2])
    /\ RowsOf(starts[2]) # <<>>

\* The same end state in the tabular scan of app_excel3, for the records
\* it started: the persons of record h are the person rows between its
\* title row and the next title row.
IsTitle3(k) == row_has_section_I(df, k - 1) \/ row_has_section_II(df, k - 1)

DfPersonsOf(h) ==
    Sorted({k \in (h + 1)..Len(df) :
               /\ \A j \in (h + 1)..k : ~IsTitle3(j)
               /\ ~is_address_line(JoinRow(df[k], k))
               /\ parse_person(JoinRow(df[k], k)) # None})

C9_Df3_FinalFlush ==
    pc = "done" =>
        /\ current_people = <<>> /\ current_parcels = <<>>
        /\ \A h \in Range(starts) :
              DfPersonsOf(h) # <<>> =>
                  /\ RowsOf(h) # <<>>
                  /\ \A j \in 1..Len(RowsOf(h)) :
                        RowsOf(h)[j].ten_chu_1 = DfPersonsOf(h)[1]
        /\ \A i, j \in 1..Len(rows) :
              (i # j /\ rows[i].ngay_vao_so # 0) =>
                  rows[i].ngay_vao_so # rows[j].ngay_vao_so
        /\ \A i, j \in 1..Len(rows) : i < j => row_rec[i] <= row_rec[j]

C9_Df3_Witness ==
    /\ pc = "done"
    /\ Len(starts) = 2
    /\ DfPersonsOf(starts[1]) # <<>> /\ DfPersonsOf(starts[2]) # <<>>
    /\ Len(rows) = 2

\* ===================================================================
\* C10 Every row of a record names the record's first person as owner 1
\*     and its second as owner 2 (all fields of an absent owner empty),
\*     all rows of a record carry the same owner fields, and no third
\*     person and no person of another record is in a row.
\* ===================================================================
C10_OwnerFields ==
    \A i \in 1..Len(rows) :
        LET P == PersonsOf(row_rec[i])
            w == rows[i]
        IN  /\ AllEqual(Owner1Fields(w), IF Len(P) >= 1 THEN P[1] ELSE 0)
            /\ AllEqual(Owner2Fields(w), IF Len(P) >= 2 THEN P[2] ELSE 0)
            /\ Len(P) < 1 => w.dia_chi_1 = ""
            /\ Len(P) < 2 => w.dia_chi_2 = ""
            /\ \A j \in 1..Len(rows) :
                  row_rec[j] = row_rec[i] =>
                      /\ Owner1Fields(rows[j]) = Owner1Fields(w)
                      /\ Owner2Fields(rows[j]) = Owner2Fields(w)
                      /\ rows[j].dia_chi_1 = w.dia_chi_1
                      /\ rows[j].dia_chi_2 = w.dia_chi_2

\* A record with three persons is out: its row names the first two.
C10_Witness ==
    \E i \in 1..Len(rows) :
        /\ Len(PersonsOf(row_rec[i])) >= 3
        /\ rows[i].ten_chu_2 # 0

\* ===================================================================
\* C11 A line on which the extractor returns none (parse_person in the
\*     persons section, parse_parcel_line_v2 in the parcels section)
\*     changes nothing and does not end the scan: section, in_bia, the
\*     persons, the parcels and the rows stay, so the lines after it
\*     meet the state they would meet without it.
\* ===================================================================
C11_ExtractorNoneStep ==
    /\ lines' # lines
    /\ in_bia
    /\ LET s == normalize_text(lines'[Len(lines')]) IN
        /\ s # EmptyText
        /\ ~is_section_header_i(s)
        /\ ~is_section_header_ii(s)
        /\ \/ section = "I" /\ ~is_address_line(s) /\ parse_person(s) = None
           \/ section = "II" /\ parse_parcel_line_v2(s) = None

C11_ExtractorNoneIgnored ==
    [][C11_ExtractorNoneStep =>
          UNCHANGED <<section, in_bia, current_people, current_parcels,
                      rows, pc>>]_vars

\* In a record holding a person, a line rejected in the parcels section
\* was followed by a parcel line that was taken.
C11_Witness ==
    /\ current_people # <<>>
    /\ \E k \in 2..(Len(lines) - 1) :
          /\ Kind(k) \in {"other", "person", "addr"}
          /\ RecOf(k) # 0
          /\ \E j \in RecOf(k)..k : Kind(j) = "II"
          /\ InParcels(k + 1)
          /\ \E i \in 1..Len(current_parcels) :
                current_parcels[i].ngay_thang_vao_so = k + 1

\* ===================================================================
\* C12 Every person parse_person returns has a non-empty full_name and
\*     a non-empty id_number or birth value; a line giving an empty
\*     name, or neither a valid ID nor a birth value, gives no person.
\* ===================================================================
DigitCount(run) == Len(SelectSeq(run, LAMBDA c : c \in DecimalDigit))

\* No run of the line holds 9 to 12 digits.
NoValidRun(s) ==
    \A t \in {s.run, s.extra} : DigitCount(t) < 9 \/ DigitCount(t) > 12

\* Nothing of the name is left once the honorific is taken away.
NoName(s) == s.name = <<>> \/ (Len(s.name) = 1 /\ s.name[1] \in Honorifics)

C12_PersonValid ==
    pc = "ret" =>
        /\ \A i \in 1..Len(current_people) :
              /\ current_people[i].full_name # <<>>
              /\ \/ current_people[i].id_number # <<>>
                 \/ current_people[i].birth_year # ""
        /\ (NoName(lines[1])
              \/ (NoValidRun(lines[1]) /\ lines[1].year = "" /\ lines[1].dob = ""))
              => current_people = <<>>

\* A line with a name and a date of birth and no ID gave a person.
C12_Witness ==
    /\ pc = "ret"
    /\ current_people # <<>>
    /\ current_people[1].id_number = <<>>
    /\ current_people[1].birth_year = "02/03/1940"
    /\ lines[1].label

\* ===================================================================
\* C13 The id_number of every person returned is empty or made of 9 to
\*     12 ASCII digits, from the labeled match and from the scan alike.
\* ===================================================================
C13_IdAsciiDigits ==
    pc = "ret" =>
        \A i \in 1..Len(current_people) :
            LET id == current_people[i].id_number IN
            \/ id = <<>>
            \/ /\ 9 <= Len(id) /\ Len(id) <= 12
               /\ \A k \in 1..Len(id) : id[k] \in AsciiDigit

\* ===================================================================
\* C14 The parcel line "05/06/2001 12 3 Rieng 150.5 Chung 0 ONT Lau dai
\*     DG-KTT BM123456 CH789" is parsed to registry date 05/06/2001,
\*     parcel 12, map sheet 3, private area 150.5, purpose ONT, term
\*     Lau dai, origin DG-KTT, serial BM123456, registry number CH789.
\* ===================================================================
C14_Line ==
    [label_r |-> TRUE, rieng |-> T_150_5, label_c |-> TRUE, chung |-> T_0,
     code |-> TRUE, term |-> TRUE, tail |-> TRUE]

C14_ConcreteParcel ==
    (pc = "ret" /\ lines[1] = C14_Line) =>
        /\ Len(current_parcels) = 1
        /\ current_parcels[1].ngay_thang_vao_so = "05/06/2001"
        /\ current_parcels[1].so_thu_tu_thua_dat = "12"
        /\ current_parcels[1].so_thu_tu_to_ban_do = "3"
        /\ current_parcels[1].dt_rieng_m2 = T_150_5
        /\ current_parcels[1].muc_dich_su_dung = T_ONT
        /\ current_parcels[1].thoi_han_su_dung = T_Lau \o <<" ">> \o T_dai
        /\ current_parcels[1].nguon_goc_su_dung = T_DG_KTT
        /\ current_parcels[1].so_phat_hanh_gcn = T_BM123456
        /\ current_parcels[1].so_vao_so = T_CH789

\* ===================================================================
\* C15 The line "Ho ong: Nguyen A, sinh nam 1938, so CMND 220515369,
\*     ngay cap 04/01/1997, ..." gives the person Nguyen A, born 1938,
\*     ID 220515369, issued 04/01/1997, in every parse_person.
\* ===================================================================
C15_Line ==
    [lead |-> "Ho ong:", name |-> <<"Nguyen", "A">>, year |-> "1938", dob |-> "",
     label |-> TRUE, run |-> Run9, extra |-> <<>>, issue |-> "ngay cap"]

C15_ConcretePerson ==
    (pc \in {"ret", "ret_app"} /\ lines[1] = C15_Line) =>
        /\ Len(current_people) = 1
        /\ current_people[1].full_name = <<"Nguyen", "A">>
        /\ current_people[1].birth_year = "1938"
        /\ current_people[1].id_number = Run9
        /\ current_people[1].issue_date = "04/01/1997"

\* ===================================================================
\* C16 Rescue is idempotent whatever the Converter answers: applied to
\*     its own result, fix_mixed_to_unicode returns that result; and a
\*     text whose tokens are all detected as Unicode and that holds no
\*     legacy marker is returned as it is, whitespace runs included.
\* ===================================================================
C16_RescueIdempotent ==
    /\ (pc = "ret2" /\ rows[2] # Raised) => rows[2] = rows[1]
    /\ (/\ pc = "ret"
        /\ ~LEGACY_MARKERS_search(lines)
        /\ \A i \in 1..Len(lines) :
              ~isspace(lines[i]) => conv.detectCharset[lines[i]] = "UNICODE")
           => rows[1] = lines

\* ===================================================================
\* C17 convert_best returns the text itself unless a candidate whose
\*     conversion succeeds scores strictly higher; then it returns the
\*     highest scoring such conversion, the earliest candidate on ties.
\*     Candidates that raise are skipped.  The score never goes down.
\* ===================================================================
C17_Succeeding == {k \in 1..Len(Cands) : conv_convert(lines, Cands[k]) # Raised}

C17_Better ==
    {k \in C17_Succeeding :
        score_vn(conv_convert(lines, Cands[k])) > score_vn(lines)}

C17_ConvertBestNeverGuesses ==
    pc = "ret" =>
        /\ C17_Better = {} => rows[1] = lines
        /\ C17_Better # {} =>
              \E k \in C17_Better :
                  /\ rows[1] = conv_convert(lines, Cands[k])
                  /\ \A j \in C17_Better :
                        LET sj == score_vn(conv_convert(lines, Cands[j]))
                            sk == score_vn(conv_convert(lines, Cands[k]))
                        IN  sj < sk \/ (sj = sk /\ k <= j)
        /\ score_vn(rows[1]) >= score_vn(lines)

\* Two candidates gave different texts of the same, higher score: the
\* text of the earlier one was returned.
C17_Witness ==
    /\ pc = "ret"
    /\ C17_Better = {1, 2}
    /\ conv_convert(lines, Cands[1]) # conv_convert(lines, Cands[2])
    /\ score_vn(conv_convert(lines, Cands[1])) = score_vn(conv_convert(lines, Cands[2]))
    /\ rows[1] = conv_convert(lines, Cands[1])

\* ===================================================================
\* C18 Neither rescuer lets an exception of the Converter escape: when
\*     detectCharset or convert raises, a text is still returned, with
\*     the token concerned unchanged.
\* ===================================================================
C18_RescuerNeverThrows ==
    pc \in {"ret", "ret3"} =>
        /\ rows[1] # Raised
        /\ Len(rows[1]) = Len(lines)

\* ===================================================================
\* C19 A word token for which detectCharset reports a legacy code page
\*     is replaced by its conversion from that code page, whichever
\*     code page it is, in the token loop of both rescuers.
\* ===================================================================
C19_Legacy(tok) ==
    /\ ~isspace(tok)
    /\ conv.detectCharset[tok] \notin {"UNICODE", "", "Raise"}
    /\ conv.convert[<<tok, conv.detectCharset[tok]>>] # "Raise"

C19_LegacyTokenConverted ==
    /\ (pc = "ret" /\ rows[1] # Raised) =>
          \A i \in 1..Len(lines) :
              C19_Legacy(lines[i]) =>
                  TokenPass(lines)[i] = conv.convert[<<lines[i], conv.detectCharset[lines[i]]>>]
    /\ (pc = "ret3" /\ rows[1] # Raised) =>
          \A i \in 1..Len(lines) :
              C19_Legacy(lines[i]) =>
                  rows[1][i] = conv.convert[<<lines[i], conv.detectCharset[lines[i]]>>]

\* ===================================================================
\* C20 The private and the shared area of every parcel are empty or a
\*     number written with '.': digits with at most one '.' between.
\* ===================================================================
IsNumericText(t) ==
    /\ t # <<>>
    /\ \A i \in 1..Len(t) : t[i] \in AsciiDigit \cup {"."}
    /\ Cardinality({i \in 1..Len(t) : t[i] = "."}) <= 1
    /\ t[1] # "." /\ t[Len(t)] # "."

C20_AreaOf(q) ==
    IF "dt_rieng_m2" \in DOMAIN q THEN <<q.dt_rieng_m2, q.dt_chung_m2>>
    ELSE <<q.rieng, q.chung>>

C20_AreasNumeric ==
    pc \in {"ret", "ret3"} =>
        \A i \in 1..Len(current_parcels) :
            \A j \in 1..2 :
                LET a == C20_AreaOf(current_parcels[i])[j] IN
                a = <<>> \/ IsNumericText(a)


\* ===================================================================
\* C21 parse_parcel_line_v2 returns a parcel exactly when the line
\*     starts with a date of the shape dd/mm/yyyy: then every field
\*     whose text is not on the line is empty and the parcel is added;
\*     otherwise None is returned and no parcel is added.
\* ===================================================================
C21_DateLed == {L_date, L_short, L_dots, L_wide}

C21_ParcelIffDate ==
    pc = "ret" =>
        LET s == lines[1]
            q == rows[1]
        IN  /\ (q # None) <=> (s.lead \in C21_DateLed)
            /\ q = None => current_parcels = <<>>
            /\ q # None =>
                  /\ current_parcels = <<q>>
                  /\ q.ngay_thang_vao_so = s.lead
                  /\ ~s.nums => (q.so_thu_tu_thua_dat = "" /\ q.so_thu_tu_to_ban_do = "")
                  /\ ~s.body.code => q.muc_dich_su_dung = <<>>
                  /\ ~s.body.term => q.thoi_han_su_dung = <<>>
                  /\ ~s.body.tail =>
                        /\ q.nguon_goc_su_dung = <<>>
                        /\ q.so_phat_hanh_gcn = <<>>
                        /\ q.so_vao_so = <<>>
                  /\ s.body = NoBody => (q.dt_rieng_m2 = <<>> /\ q.dt_chung_m2 = <<>>)

\* The line "5-6-01" and nothing else gave a parcel whose other fields
\* are all empty.
C21_Witness ==
    /\ pc = "ret"
    /\ lines[1] = [lead |-> L_short, nums |-> FALSE, body |-> NoBody]
    /\ rows[1] # None
    /\ current_parcels = <<rows[1]>>
    /\ rows[1].so_thu_tu_thua_dat = ""
    /\ rows[1].dt_rieng_m2 = <<>>
    /\ rows[1].so_vao_so = <<>>


\* ===================================================================
\* C22 Household grouping: every household header closes the record in
\*     progress and opens a new one, whether or not the header itself
\*     gives a person; a later line that is no header and gives a
\*     person adds it to the record in progress; an address line
\*     changes no record.
\* ===================================================================
C22_Read == Len(lines') = Len(lines) + 1

C22_Line == HouseStrip(lines'[Len(lines')])

C22_HouseholdStep ==
    C22_Read =>
        LET s == C22_Line
            p == house_parse_person(s)
        IN  /\ is_household_header(s) =>
                  /\ rows' = IF current_people # <<>> THEN Append(rows, current_people)
                             ELSE rows
                  /\ current_people' = IF p # None THEN <<p>> ELSE <<>>
            /\ (s.kind = "person" /\ p # None) =>
                  /\ rows' = rows
                  /\ current_people' = Append(current_people, p)
            /\ app_is_address_line(s) =>
                  /\ rows' = rows
                  /\ current_people' = current_people

C22_HouseholdHeaderOpensRecord == [][C22_HouseholdStep]_vars

\* A household header that gives no person has closed a record, and the
\* person of a later line stands alone in the record it opened.
C22_Witness ==
    /\ Len(lines) = 3
    /\ lines[1].kind = "person"
    /\ lines[2].kind = "hh" /\ lines[2].id = 0
    /\ lines[3].kind = "person"
    /\ rows = <<<<house_parse_person(lines[1])>>>>
    /\ current_people = <<house_parse_person(lines[3])>>


\* ===================================================================
\* C29 app.py group_records: every record returned is non-empty, and
\*     the records put end to end are the persons parse_person gave
\*     for the lines read, in the order of the lines: none lost, none
\*     twice, none moved.
\* ===================================================================
RECURSIVE Concat(_)
Concat(recs) == IF recs = <<>> THEN <<>> ELSE Head(recs) \o Concat(Tail(recs))

\* The persons of the lines read so far, in line order.
C29_Parsed ==
    LET got == SelectSeq(lines, LAMBDA raw : house_parse_person(HouseStrip(raw)) # None)
    IN  [i \in 1..Len(got) |-> house_parse_person(HouseStrip(got[i]))]

C29_RecordsPartitionPersons ==
    /\ \A i \in 1..Len(rows) : rows[i] # <<>>
    /\ Concat(rows) \o current_people = C29_Parsed
    /\ pc = "done" => Concat(rows) = C29_Parsed

\* Three persons came out in two records, in line order.
C29_Witness ==
    /\ pc = "done"
    /\ Len(rows) = 2
    /\ Len(Concat(rows)) = 3
    /\ \E i \in 1..Len(lines) : lines[i].kind = "hon" /\ lines[i].id = 0

\* ===================================================================
\* C30 Household grouping: a blank line closes the record in progress,
\*     so persons read before and after a blank line never share a
\*     record; and only a blank line, a household header, a plain
\*     honorific header and the end of the input close a record.
\* ===================================================================
C30_Closers == {"blank", "hh", "hon"}

C30_Step ==
    /\ (C22_Read /\ lines'[Len(lines')].kind = "blank") =>
          /\ current_people' = <<>>
          /\ rows' = IF current_people # <<>> THEN Append(rows, current_people) ELSE rows
    /\ (C22_Read /\ lines'[Len(lines')].kind \notin C30_Closers) => rows' = rows
    /\ rows' # rows =>
          \/ C22_Read /\ lines'[Len(lines')].kind \in C30_Closers
          \/ pc = "scan" /\ pc' = "done"

\* No record holds two persons with a blank line between their lines.
C30_BlankSeparates ==
    \A k \in 1..Len(rows) : \A i, j \in 1..Len(rows[k]) :
        LET a == rows[k][i].full_name
            b == rows[k][j].full_name
        IN  a < b => \A m \in (a + 1)..(b - 1) : lines[m].kind # "blank"

C30_BlankLineClosesRecord == [][C30_Step]_vars /\ []C30_BlankSeparates

\* Two persons with only a blank line between them are in two records.
C30_Witness ==
    /\ pc = "done"
    /\ Len(lines) = 3
    /\ lines[1].kind = "person" /\ lines[2].kind = "blank" /\ lines[3].kind = "person"
    /\ rows = <<<<house_parse_person(lines[1])>>, <<house_parse_person(lines[3])>>>>


\* ===================================================================
\* C26 The tabular scan ends on every finite table: the row index gets
\*     larger with every iteration and never smaller, and the final
\*     flush is reached.
\* ===================================================================
C26_Step == (pc = "scan" /\ pc' = "scan") => r' > r

C26_ScanTerminates == [][C26_Step]_vars /\ <>(pc = "done")


\* ===================================================================
\* C23 The data rows of app_excel3 are read from the row after the
\*     column titles; the reading stops at the first row whose date cell
\*     is neither a date nor a date serial; the rows before it become
\*     the parcels of the record, in row order, and the scan goes on at
\*     the row that stopped the reading.
\* ===================================================================
\* The scan is at a section II title whose column titles were found.
C23_AtTable ==
    /\ pc = "scan" /\ r < n_rows(df) /\ in_bia
    /\ ~row_has_section_I(df, r)
    /\ row_has_section_II(df, r)
    /\ header_r(df, r) # -1

\* The cells that are a date or a date serial.
C23_Dates == {"D", "S"}

\* The first row after the titles whose date cell is not one of them.
C23_Stop(hr) ==
    LET Ends == {j \in (hr + 1)..n_rows(df) :
                    j = n_rows(df) \/ cell(df, j, DateCol3(df, hr)) \notin C23_Dates}
    IN  CHOOSE j \in Ends : \A k \in Ends : j <= k

C23_Step ==
    C23_AtTable =>
        LET hr   == header_r(df, r)
            stop == C23_Stop(hr)
            n    == Len(current_parcels)
        IN  /\ pc' = "scan"
            /\ r' = stop
            /\ Len(current_parcels') = n + (stop - (hr + 1))
            /\ SubSeq(current_parcels', 1, n) = current_parcels
            /\ \A i \in 1..(stop - (hr + 1)) : current_parcels'[n + i].ngay = hr + i + 1

C23_DataRowsRead == [][C23_Step]_vars

\* ===================================================================
\* C24 After a section II title at row r, app_excel3 looks for the
\*     column titles in rows r+1 .. r+4 only, and never past the last
\*     row; when none of them has the titles, no parcel is added, the
\*     persons are kept and the scan goes on at row r+1.
\* ===================================================================
\* The scan is at a section II title of an open record.
C24_AtTitle ==
    /\ pc = "scan" /\ r < n_rows(df) /\ in_bia
    /\ ~row_has_section_I(df, r)
    /\ row_has_section_II(df, r)

\* A row with the date and registry words and the sequence-number words.
C24_Titles(row) ==
    /\ \E c \in 1..Len(row) : row[c] = "Hd"
    /\ \E c \in 1..Len(row) : row[c] = "Ht"

\* The rows r+1 .. r+4 of the table that have the column titles.
C24_Found == {k \in (r + 1)..(r + 4) : k < n_rows(df) /\ C24_Titles(df[k + 1])}

C24_Step ==
    C24_AtTitle =>
        IF C24_Found = {}
        THEN /\ current_parcels' = current_parcels
             /\ current_people' = current_people
             /\ rows' = rows
             /\ in_bia' = in_bia
             /\ pc' = "scan"
             /\ r' = r + 1
        ELSE pc' = "scan" => \E k \in C24_Found : r' > k

C24_HeaderLookahead == [][C24_Step]_vars

\* The column titles are five rows after the section II title: the step
\* has left the title row with the person and no parcel.
C24_Witness ==
    /\ pc = "scan"
    /\ df = <<<<"I", "">>, <<"P", "">>, <<"II", "">>, <<"N", "X">>, <<"N", "X">>,
              <<"N", "X">>, <<"N", "X">>, <<"Hd", "Ht">>>>
    /\ r = 3
    /\ section = "II"
    /\ current_parcels = <<>>
    /\ Len(current_people) = 1

\* ===================================================================
\* C25 In app_excel3 a row with the section I title in any of its cells,
\*     whatever its other cells hold, is taken as a section I title and
\*     opens a new record.
\* ===================================================================
\* The scan is at a row one of whose cells is the section I title.
C25_TitleInRow ==
    /\ pc = "scan" /\ r < n_rows(df)
    /\ \E c \in 1..Len(df[r + 1]) : df[r + 1][c] = "I"

C25_Step ==
    C25_TitleInRow =>
        /\ in_bia' /\ section' = "I"
        /\ current_people' = <<>> /\ current_parcels' = <<>>
        /\ starts' = Append(starts, r + 1)
        /\ r' = r + 1

C25_TitleInAnyCell == [][C25_Step]_vars

\* ===================================================================
\* C27 In xuatdulieu the address of a person of a record is written once:
\*     an address that is not empty is changed neither by a later
\*     address line nor by propagate_addresses, up to the output rows;
\*     an address line met when the record has no person, or when its
\*     last person has an address, changes nothing.
\* ===================================================================
\* The line read by the step is an address line of the persons section.
C27_AddressLineRead ==
    /\ Len(lines') = Len(lines) + 1
    /\ lines'[Len(lines')].kind = "addr"
    /\ in_bia /\ section = "I"

\* The record was closed by the step: its rows are the new output rows.
C27_Closed == rows' # rows

C27_Step ==
    /\ \A i \in 1..Len(current_people) :
          current_people[i].address # "" =>
              /\ i <= Len(current_people') =>
                    current_people'[i].address = current_people[i].address
              /\ (C27_Closed /\ i <= 2) =>
                    \A k \in (Len(rows) + 1)..Len(rows') :
                        IF i = 1 THEN rows'[k].dia_chi_1 = current_people[i].address
                                 ELSE rows'[k].dia_chi_2 = current_people[i].address
    /\ (C27_AddressLineRead /\ (current_people = <<>>
                                 \/ current_people[Len(current_people)].address # "")) =>
          /\ current_people' = current_people
          /\ current_parcels' = current_parcels
          /\ rows' = rows

C27_AddressWrittenOnce == [][C27_Step]_vars

\* The person had the address of the first address line when a second
\* address line with another address was read: the first one is kept.
C27_Witness ==
    /\ Len(lines) = 4
    /\ lines[1].kind = "I" /\ lines[2].kind = "person"
    /\ lines[3].kind = "addr" /\ lines[3].addr = "A"
    /\ lines[4].kind = "addr" /\ lines[4].addr = "B"
    /\ Len(current_people) = 1 /\ current_people[1].address = "A"

\* ===================================================================
\* C28 In group_records of xuatdulieu the two sections exclude each
\*     other: from a section I title to the next section II title no
\*     parcel is added, a date-led line included; from a section II
\*     title to the next section I title no person is added and no
\*     address is set; a second section II title keeps the record and
\*     the parcels it has.
\* ===================================================================
\* The step reads a line of the open record that is no section I title.
C28_Read ==
    /\ Len(lines') = Len(lines) + 1
    /\ in_bia
    /\ lines'[Len(lines')].kind # "I"

C28_Line == lines'[Len(lines')]

C28_Step ==
    /\ (C28_Read /\ section = "I") => current_parcels' = current_parcels
    /\ (C28_Read /\ section = "II") => current_people' = current_people
    /\ (C28_Read /\ C28_Line.kind = "II") =>
          /\ section' = "II"
          /\ in_bia' /\ starts' = starts /\ rows' = rows
          /\ current_parcels' = current_parcels
          /\ current_people' = current_people

C28_SectionsExclusive == [][C28_Step]_vars

\* A parcel line in the persons section, a parcel line in the parcels
\* section and a second section II title were read: the record holds the
\* one parcel read in the parcels section.
C28_Witness ==
    /\ Len(lines) = 5
    /\ lines[1].kind = "I" /\ lines[2].kind = "parcel" /\ lines[3].kind = "II"
    /\ lines[4].kind = "parcel" /\ lines[5].kind = "II"
    /\ in_bia /\ section = "II"
    /\ current_people = <<>>
    /\ current_parcels = <<parse_parcel_line_v2(lines[4])>>

====
